---- MODULE Spec2Model ----
(***************************************************************************)
(* Broker connection lifecycle of the broker routes (src/unnamed/part_000, *)
(* the router that starts at line 544): the broker_connections table, the  *)
(* HTTP handlers that read and write it, and the derived view fields.      *)
(* A handler that awaits more than one database or broker call is split at *)
(* its awaits, since other requests run between them.                      *)
(***************************************************************************)
EXTENDS Integers, Sequences, FiniteSets, TLC

VARIABLES
    db,        \* broker_connections: connection id -> row (DOMAIN db = the stored ids)
    lastID,    \* the last rowid the table handed out (result.lastID)
    uuidCtr,   \* number of uuidv4() values drawn so far (each draw is fresh)
    clock,     \* epoch seconds, what Date.now()/1000 returns
    serverTz,  \* offset of the server's local time zone from UTC, seconds
    reqs,      \* requests suspended at an await: slot -> continuation
    resp,      \* the last HTTP response sent, with the request it answers
    kiteInstances,  \* kiteService's cached client handles: connection id -> the access token the handle was built with
    brokerCall,     \* the last call kiteService issued to the broker's API: the connection id and the token it carried
    exchangeCall,   \* the arguments of the last call to kiteService.generateAccessToken
    given,     \* connection id -> the API key and secret POST /connect received for it (history)
    log,       \* what the last step wrote to the console of the values it read from rows and credentials
    view,      \* the state of the dashboard's Positions component and of its running fetchPositionsData call
    auth       \* the browser's authentication popup and the timers the component that opened it has set

vars == <<db, lastID, uuidCtr, clock, serverTz, reqs, resp, kiteInstances, brokerCall, exchangeCall, given, log, view, auth>>

----
\* Bounds of the model.
MaxConns == 2        \* rows the requests of a behaviour may insert

Users == {"u1", "u2"}
ConnIds == 1..MaxConns    \* connection ids a request may name
Slots == {1, 2}           \* continuations that may be suspended at an await

\* SQL NULL and the empty string '' of a TEXT column; a stored integer n is <<n>>.
NULL == <<>>
EmptyStr == <<"">>

\* JavaScript truthiness of a TEXT column value (null and '' are falsy) and of
\* an INTEGER column value (null and 0 are falsy).
Truthy(v) == v # NULL /\ v # EmptyStr
TruthyInt(v) == v # NULL /\ v[1] # 0

----
\* Program constants.
MAX_CONNECTIONS == 5
REFRESH_WINDOW == 3600
CUTOVER_HOUR == 6
DAY == 24 * 3600

\* Offset of India Standard Time from UTC.
IST == 5 * 3600 + 1800

\* Instants the clock may show: the start (day 0, early morning), and the
\* instants one hour before, 30 minutes before, just before, at and just after
\* 06:00 of day 1 in IST (epoch 88200) and in UTC (epoch 108000).
Times ==
    {1000, 84600, 84601, 86400, 88199, 88200, 88201,
     104400, 104401, 106200, 107999, 108000, 108001}

----
\* Credential vault (utils/encryption.js): a ciphertext is opaque and differs
\* from its plaintext; decryptData inverts encryptData.
encryptData(p) == <<"enc", p>>
decryptData(c) == c[2]

\* Column defaults of broker_connections that INSERT leaves to the schema.
SchemaDefaults ==
    [access_token |-> NULL, public_token |-> NULL,
     access_token_expires_at |-> NULL, is_active |-> 1]

\* String.prototype.toLowerCase on the broker names the model uses.
toLowerCase(s) ==
    CASE s = "Zerodha" -> "zerodha"
      [] s = "Upstox"  -> "upstox"
      [] OTHER         -> s

\* The broker registry's authRequired flag: zerodha authenticates by OAuth
\* redirect, upstox and 5paisa connect directly.
AuthRequired(brokerName) == brokerName = "zerodha"

\* The webhook URL built with one webhook id drawn once for all requests.
WebhookUrlSharedId(u, webhookId) == <<"/api/webhook", u, <<"uuid", 1>>>>

\* The ids of the broker registry.
SupportedBrokers == {"zerodha", "upstox", "5paisa"}

\* `${baseUrl}/api/webhook/${req.user.id}/${webhookId}`
WebhookUrl(u, webhookId) == <<"/api/webhook", u, webhookId>>

\* uuidv4(): the n-th draw; distinct draws differ.
uuidv4(n) == <<"uuid", n>>

----
\* Responses. body = [status, kind, error, data] is what the client receives:
\* the HTTP status, the kind of outcome, the error message, the payload.
Body(status, kind, error, data) ==
    [status |-> status, kind |-> kind, error |-> error, data |-> data]

\* The last response together with the request it answers: the operation, the
\* authenticated caller, the connection id named, and (for /disconnect) the
\* is_active value the named row had when the request arrived.
Response(op, u, id, body) ==
    [op |-> op, user |-> u, id |-> id, before |-> NULL, body |-> body]

NoResponse == Response("none", "none", 0, Body(0, "none", "", NULL))

\* No call to the broker's API has been issued yet.
NoBrokerCall == [id |-> 0, token |-> NULL]

\* No token exchange has been called yet.
NoExchangeCall == [apiKey |-> "", apiSecret |-> "", request_token |-> ""]

\* A step that writes no row, credential or URL to the console.
NoLog == [rows |-> {}, ciphertexts |-> {}, loginUrls |-> {}]

\* The Positions component as useState and useRef initialise it (Positions.tsx
\* 38-49), with no fetchPositionsData call running. initial is where
\* fetchInitialData stands, closure the state values its render captured;
\* timers are the interval timers the browser holds, timerClosure the state
\* values captured by the render that set the last one.
NoView ==
    [brokerConnections |-> <<>>, selectedBroker |-> "all",
     positions |-> <<>>, pnlSummary |-> NULL, connectionStatus |-> [i \in {} |-> TRUE],
     lastUpdateTime |-> NULL,
     pc |-> "idle", activeConnections |-> <<>>, i |-> 0,
     allPositions |-> <<>>, connectionStatuses |-> [i \in {} |-> TRUE],
     fetched |-> [i \in {} |-> [ok |-> TRUE, positions |-> <<>>]],
     loading |-> TRUE, initial |-> "start", isComponentMounted |-> TRUE,
     closure |-> [brokerConnections |-> <<>>, selectedBroker |-> "all"],
     isLiveUpdating |-> FALSE, updateInterval |-> 3000,
     intervalRef |-> NULL, timers |-> {}, nextTimer |-> 1,
     timerClosure |-> [brokerConnections |-> <<>>, selectedBroker |-> "all"]]

\* No authentication popup was opened: no window, no timer, no marker.
NoAuth ==
    [component |-> "none", window |-> "none", closedBy |-> "none", t |-> 0,
     checkClosed |-> FALSE, timeout |-> FALSE, refetchAt |-> NULL, due |-> {},
     marker |-> 0, refetched |-> FALSE]

\* SELECT ... WHERE id = ? AND user_id = ?
OwnedRow(d, u, id) == id \in DOMAIN d /\ d[id].user_id = u

\* SELECT ... WHERE id = ? AND user_id = ? AND is_active = 1
OwnedActiveRow(d, u, id) == OwnedRow(d, u, id) /\ d[id].is_active = 1

\* SELECT COUNT(*) ... WHERE user_id = ? AND is_active = 1
ActiveCount(d, u) ==
    Cardinality({i \in DOMAIN d : d[i].user_id = u /\ d[i].is_active = 1})

----
\* Derived view fields (GET /connections and GET /connections/:id).

\* is_authenticated taken from is_active instead of from the stored token.
IsAuthenticatedFromActive(row) == IF row.is_active = 1 THEN 1 ELSE 0

\* CASE WHEN access_token IS NOT NULL AND access_token != '' THEN 1 ELSE 0 END
IsAuthenticatedCol(row) ==
    IF row.access_token # NULL /\ row.access_token # EmptyStr THEN 1 ELSE 0

\* The JSON text of a JavaScript value `x && y`: the left operand when it is
\* falsy (null or 0), else the comparison's true or false.
JsonAnd(left, right) ==
    IF left = NULL THEN "null"
    ELSE IF left[1] = 0 THEN "0"
    ELSE IF right THEN "true" ELSE "false"

\* token_expired with <= in place of <.
TokenExpiredFieldInclusive(row, now) ==
    JsonAnd(row.access_token_expires_at,
            TruthyInt(row.access_token_expires_at) /\ row.access_token_expires_at[1] <= now)

\* access_token_expires_at && access_token_expires_at < now
TokenExpiredField(row, now) ==
    JsonAnd(row.access_token_expires_at,
            TruthyInt(row.access_token_expires_at) /\ row.access_token_expires_at[1] < now)

\* needs_token_refresh with the window taken as 3600 minutes' worth of seconds
\* divided down to a minute.
NeedsTokenRefreshFieldMinute(row, now) ==
    JsonAnd(row.access_token_expires_at,
            TruthyInt(row.access_token_expires_at)
              /\ (row.access_token_expires_at[1] - now) < REFRESH_WINDOW \div 60)

\* access_token_expires_at && (access_token_expires_at - now) < 3600
NeedsTokenRefreshField(row, now) ==
    JsonAnd(row.access_token_expires_at,
            TruthyInt(row.access_token_expires_at)
              /\ (row.access_token_expires_at[1] - now) < REFRESH_WINDOW)

\* The selected columns plus the two computed fields.
ConnectionView(id, row, now) ==
    [id |-> id,
     broker_name |-> row.broker_name,
     is_active |-> row.is_active,
     webhook_url |-> row.webhook_url,
     access_token_expires_at |-> row.access_token_expires_at,
     is_authenticated |-> IsAuthenticatedCol(row),
     token_expired |-> TokenExpiredField(row, now),
     needs_token_refresh |-> NeedsTokenRefreshField(row, now)]

\* GET /connections
ListConnectionsBody(d, u, now) ==
    Body(200, "ok", "",
         {ConnectionView(i, d[i], now) : i \in {j \in DOMAIN d : d[j].user_id = u}})

\* GET /connections/:id
GetConnectionBody(d, u, id, now) ==
    IF ~OwnedRow(d, u, id)
    THEN Body(404, "NotFound", "Broker connection not found", NULL)
    ELSE Body(200, "ok", "", {ConnectionView(id, d[id], now)})

----
\* Inputs of the requests the model issues.

\* POST /connect bodies: an OAuth broker (mixed case, as the form may send it),
\* a direct broker, and a body with the API key missing.
ConnectInputs ==
    {[brokerName |-> "Zerodha", apiKey |-> "k1", apiSecret |-> "s1"],
     [brokerName |-> "upstox",  apiKey |-> "k1", apiSecret |-> "s1"],
     [brokerName |-> "Zerodha", apiKey |-> "",   apiSecret |-> "s1"]}

\* Query strings of GET /auth/zerodha/callback; connection_id 0 stands for a
\* missing connection_id, request_token "" for a missing one.
CallbackQuery(rt, st, c) ==
    [request_token |-> rt, action |-> "login", status |-> st, connection_id |-> c]

CallbackInputs ==
    {CallbackQuery("rt1", "success", c) : c \in ConnIds}
    \cup {CallbackQuery("rt1", "error", 1), CallbackQuery("", "success", 1),
          CallbackQuery("rt1", "success", 0)}

\* kiteService.generateAccessToken(apiKey, apiSecret, request_token): what the
\* broker may answer: the two tokens, a response without access_token, or a
\* throw (ok = FALSE: a rejected request token, a network error).
ExchangeOutcomes(apiKey, apiSecret, request_token) ==
    {[ok |-> TRUE,  access_token |-> <<"at", request_token>>, public_token |-> <<"pt", request_token>>],
     [ok |-> TRUE,  access_token |-> NULL, public_token |-> NULL],
     [ok |-> FALSE, access_token |-> NULL, public_token |-> NULL]}

\* Outcomes of a call to the broker's trading API through kiteService.
BrokerCallOutcomes == {"ok", "throws"}

\* A free request slot.
Idle == [pc |-> "idle"]

----
\* POST /connect

\* `${baseUrl}/api/broker/auth/zerodha/callback?connection_id=${connectionId}` (+ intent flag)
RedirectUrl(connectionId, intent) == <<"/api/broker/auth/zerodha/callback", connectionId, intent>>

\* `https://kite.zerodha.com/connect/login?api_key=${apiKey}&v=3&redirect_url=...`
LoginUrl(apiKey, redirectUrl) == <<"https://kite.zerodha.com/connect/login", apiKey, redirectUrl>>

\* if (!brokerName || !apiKey || !apiSecret)
ConnectInputMissing(inp) == inp.brokerName = "" \/ inp.apiKey = "" \/ inp.apiSecret = ""

\* The limit check with the comparison off by one.
LimitReachedOffByOne(count) == count > MAX_CONNECTIONS

\* if (existingConnections[0].count >= 5)
LimitReached(count) == count >= MAX_CONNECTIONS

\* The rowid INSERT assigns (result.lastID).
NextRowId(last) == last + 1

\* The INSERT with the key and the secret bound to each other's column.
NewRowSwapsCredentials(u, inp, webhookUrl) ==
    [user_id |-> u,
     broker_name |-> toLowerCase(inp.brokerName),
     api_key |-> encryptData(inp.apiSecret),
     api_secret |-> encryptData(inp.apiKey),
     webhook_url |-> webhookUrl,
     access_token |-> SchemaDefaults.access_token,
     public_token |-> SchemaDefaults.public_token,
     access_token_expires_at |-> SchemaDefaults.access_token_expires_at,
     is_active |-> SchemaDefaults.is_active]

\* The row INSERT INTO broker_connections (...) VALUES (...) stores.
NewRow(u, inp, webhookUrl) ==
    [user_id |-> u,
     broker_name |-> toLowerCase(inp.brokerName),
     api_key |-> encryptData(inp.apiKey),
     api_secret |-> encryptData(inp.apiSecret),
     webhook_url |-> webhookUrl,
     access_token |-> SchemaDefaults.access_token,
     public_token |-> SchemaDefaults.public_token,
     access_token_expires_at |-> SchemaDefaults.access_token_expires_at,
     is_active |-> SchemaDefaults.is_active]

\* The 200 response of POST /connect.
ConnectOkBody(inp, connectionId, webhookUrl) ==
    IF toLowerCase(inp.brokerName) = "zerodha"
    THEN Body(200, "ok", "",
              [connectionId |-> connectionId, webhookUrl |-> webhookUrl, requiresAuth |-> TRUE,
               loginUrl |-> LoginUrl(inp.apiKey, RedirectUrl(connectionId, "initial"))])
    ELSE Body(200, "ok", "",
              [connectionId |-> connectionId, webhookUrl |-> webhookUrl, requiresAuth |-> FALSE,
               loginUrl |-> NULL])

\* Number of suspended /connect requests that will still insert a row.
PendingInserts == Cardinality({s \in Slots : reqs[s].pc = "insert"})

\* Slots are interchangeable: a new request takes the lowest free one.
FreeSlot(s) == reqs[s] = Idle /\ \A t \in Slots : t < s => reqs[t] # Idle

\* POST /connect up to the answer of the COUNT(*) query: the request is
\* validated, the count is read, and the limit is checked on that count.
\* cap bounds the requests that get as far as the INSERT: a request that
\* would pass the limit check is issued only while fewer than cap webhook ids
\* have been drawn (each such request draws one, and at most that many rows
\* are ever stored).
ConnectCheck(s, u, inp, cap) ==
    /\ FreeSlot(s)
    /\ (~ConnectInputMissing(inp) /\ ~LimitReached(ActiveCount(db, u)))
          => uuidCtr + PendingInserts < cap
    /\ IF ConnectInputMissing(inp)
       THEN /\ resp' = Response("connect", u, 0,
                         Body(400, "ValidationError", "Broker name, API key, and API secret are required", NULL))
            /\ UNCHANGED reqs
       ELSE IF LimitReached(ActiveCount(db, u))
       THEN /\ resp' = Response("connect", u, 0,
                         Body(400, "LimitExceeded", "Maximum 5 broker connections allowed per user", NULL))
            /\ UNCHANGED reqs
       ELSE /\ reqs' = [reqs EXCEPT ![s] = [pc |-> "insert", user |-> u, inp |-> inp]]
            /\ UNCHANGED resp
    /\ UNCHANGED <<db, lastID, uuidCtr, clock, serverTz, kiteInstances, brokerCall, exchangeCall, given>>
    /\ log' = NoLog
    /\ UNCHANGED <<view, auth>>

\* Outcomes of the vault's self-test, encryptData('test') then decryptData:
\* the round trip gives 'test' back, gives something else, or throws.
SelfTestOutcomes == {"pass", "mismatch", "throws"}

\* The self-test counted as failed only when the vault throws.
SelfTestFailedOnlyOnThrow(t) == t = "throws"

\* if (testDecrypted !== 'test') throw ...; catch (encryptionError)
SelfTestFailed(t) == t # "pass"

\* POST /connect from the webhook id to the response: self-test of the vault
\* (with outcome t), encryption, INSERT, and the answer.
ConnectInsertWith(s, t) ==
    /\ reqs[s].pc = "insert"
    /\ LET u == reqs[s].user
           inp == reqs[s].inp
           webhookUrl == WebhookUrl(u, uuidv4(uuidCtr + 1))
           connectionId == NextRowId(lastID)
       IN /\ uuidCtr' = uuidCtr + 1
          /\ IF SelfTestFailed(t)
             THEN /\ resp' = Response("connect", u, 0,
                               Body(500, "EncryptionFailure", "Failed to encrypt credentials. Please try again.", NULL))
                  /\ UNCHANGED <<db, lastID, given>>
             ELSE /\ db' = [i \in DOMAIN db \cup {connectionId} |->
                               IF i = connectionId THEN NewRow(u, inp, webhookUrl) ELSE db[i]]
                  /\ lastID' = connectionId
                  /\ given' = [i \in DOMAIN given \cup {connectionId} |->
                                  IF i = connectionId
                                  THEN [apiKey |-> inp.apiKey, apiSecret |-> inp.apiSecret]
                                  ELSE given[i]]
                  /\ resp' = Response("connect", u, connectionId, ConnectOkBody(inp, connectionId, webhookUrl))
    /\ reqs' = [reqs EXCEPT ![s] = Idle]
    /\ UNCHANGED <<clock, serverTz, kiteInstances, brokerCall, exchangeCall>>
    /\ log' = NoLog
    /\ UNCHANGED <<view, auth>>

ConnectInsert(s) == \E t \in SelfTestOutcomes : ConnectInsertWith(s, t)

----
\* POST /disconnect

\* The UPDATE flipping is_active instead of clearing it.
DisconnectUpdateToggle(d, u, id) ==
    [i \in DOMAIN d |->
        IF i = id /\ d[i].user_id = u THEN [d[i] EXCEPT !.is_active = 1 - d[i].is_active] ELSE d[i]]

\* UPDATE broker_connections SET is_active = 0 ... WHERE id = ? AND user_id = ?
\* The UPDATE of /disconnect wiping the row's tokens as well.
DisconnectUpdateClearsTokens(d, u, id) ==
    [i \in DOMAIN d |->
        IF i = id /\ d[i].user_id = u
        THEN [d[i] EXCEPT !.is_active = 0, !.access_token = NULL, !.public_token = NULL,
                          !.access_token_expires_at = NULL]
        ELSE d[i]]

DisconnectUpdate(d, u, id) ==
    [i \in DOMAIN d |-> IF i = id /\ d[i].user_id = u THEN [d[i] EXCEPT !.is_active = 0] ELSE d[i]]

\* The response of POST /disconnect.
DisconnectBody(d, u, id) == Body(200, "ok", "Broker disconnected successfully", NULL)

Disconnect(u, id) ==
    /\ db' = DisconnectUpdate(db, u, id)
    /\ resp' = [Response("disconnect", u, id, DisconnectBody(db, u, id))
                  EXCEPT !.before = IF OwnedRow(db, u, id) THEN <<db[id].is_active>> ELSE NULL]
    /\ UNCHANGED <<lastID, uuidCtr, clock, serverTz, reqs, kiteInstances, brokerCall, exchangeCall, given>>
    /\ log' = NoLog
    /\ UNCHANGED <<view, auth>>

----
\* DELETE /connections/:id

\* The DELETE without the user_id condition.
DeleteRowsAnyOwner(d, u, id) == [i \in DOMAIN d \ {id} |-> d[i]]

\* DELETE FROM broker_connections WHERE id = ? AND user_id = ?
DeleteRows(d, u, id) ==
    [i \in {j \in DOMAIN d : ~(j = id /\ d[j].user_id = u)} |-> d[i]]

\* result.changes
DeleteChanges(d, u, id) == Cardinality(DOMAIN d) - Cardinality(DOMAIN DeleteRows(d, u, id))

\* The response of DELETE /connections/:id.
DeleteBody(d, u, id) ==
    IF DeleteChanges(d, u, id) = 0
    THEN Body(404, "NotFound", "Broker connection not found", NULL)
    ELSE Body(200, "ok", "Broker connection deleted successfully", NULL)

Delete(u, id) ==
    /\ db' = DeleteRows(db, u, id)
    /\ resp' = Response("delete", u, id, DeleteBody(db, u, id))
    /\ UNCHANGED <<lastID, uuidCtr, clock, serverTz, reqs, kiteInstances, brokerCall, exchangeCall, given>>
    /\ log' = NoLog
    /\ UNCHANGED <<view, auth>>

----
\* POST /reconnect/:connectionId

\* The login URL built as POST /connect builds it, without the reconnect flag.
ReconnectBodyInitialIntent(d, u, id) ==
    IF ~OwnedRow(d, u, id)
    THEN Body(404, "NotFound", "Broker connection not found or inactive", NULL)
    ELSE IF ~Truthy(d[id].api_key) \/ ~Truthy(d[id].api_secret)
    THEN Body(400, "MissingCredentials", "Missing API credentials. Please update your connection settings.", NULL)
    ELSE IF toLowerCase(d[id].broker_name) = "zerodha"
    THEN Body(200, "ok", "",
              [loginUrl |-> LoginUrl(decryptData(d[id].api_key), RedirectUrl(id, "initial")),
               requiresAuth |-> TRUE])
    ELSE Body(400, "UnsupportedOperation",
              "Direct reconnection not supported for this broker. Please update your connection.", NULL)

\* The login URL issued whatever the broker.
ReconnectBodyAnyBroker(d, u, id) ==
    IF ~OwnedRow(d, u, id)
    THEN Body(404, "NotFound", "Broker connection not found or inactive", NULL)
    ELSE IF ~Truthy(d[id].api_key) \/ ~Truthy(d[id].api_secret)
    THEN Body(400, "MissingCredentials", "Missing API credentials. Please update your connection settings.", NULL)
    ELSE Body(200, "ok", "",
              [loginUrl |-> LoginUrl(decryptData(d[id].api_key), RedirectUrl(id, "reconnect")),
               requiresAuth |-> TRUE])

\* The row looked up by id alone and its credentials checked before its owner.
ReconnectBodyCredentialsFirst(d, u, id) ==
    IF id \notin DOMAIN d
    THEN Body(404, "NotFound", "Broker connection not found or inactive", NULL)
    ELSE IF ~Truthy(d[id].api_key) \/ ~Truthy(d[id].api_secret)
    THEN Body(400, "MissingCredentials", "Missing API credentials. Please update your connection settings.", NULL)
    ELSE IF d[id].user_id # u
    THEN Body(404, "NotFound", "Broker connection not found or inactive", NULL)
    ELSE IF toLowerCase(d[id].broker_name) = "zerodha"
    THEN Body(200, "ok", "",
              [loginUrl |-> LoginUrl(decryptData(d[id].api_key), RedirectUrl(id, "reconnect")),
               requiresAuth |-> TRUE])
    ELSE Body(400, "UnsupportedOperation",
              "Direct reconnection not supported for this broker. Please update your connection.", NULL)

ReconnectBody(d, u, id) ==
    IF ~OwnedRow(d, u, id)
    THEN Body(404, "NotFound", "Broker connection not found or inactive", NULL)
    ELSE IF ~Truthy(d[id].api_key) \/ ~Truthy(d[id].api_secret)
    THEN Body(400, "MissingCredentials", "Missing API credentials. Please update your connection settings.", NULL)
    ELSE IF toLowerCase(d[id].broker_name) = "zerodha"
    THEN Body(200, "ok", "",
              [loginUrl |-> LoginUrl(decryptData(d[id].api_key), RedirectUrl(id, "reconnect")),
               requiresAuth |-> TRUE])
    ELSE Body(400, "UnsupportedOperation",
              "Direct reconnection not supported for this broker. Please update your connection.", NULL)

\* What the handler writes to the console of the row it read: the row
\* ('Output - connection from DB:'), the stored ciphertexts ('Input -
\* connection.api_key (encrypted):'), and the login URL ('Generated Zerodha
\* loginUrl:', 'Output - Response: 200 OK, ... loginUrl:').
ReconnectLog(d, u, id) ==
    IF ~OwnedRow(d, u, id) THEN NoLog
    ELSE IF ~Truthy(d[id].api_key) \/ ~Truthy(d[id].api_secret)
    THEN [NoLog EXCEPT !.rows = {d[id]}]
    ELSE [rows |-> {d[id]},
          ciphertexts |-> {d[id].api_key, d[id].api_secret},
          loginUrls |-> IF toLowerCase(d[id].broker_name) = "zerodha"
                        THEN {LoginUrl(decryptData(d[id].api_key), RedirectUrl(id, "reconnect"))}
                        ELSE {}]

Reconnect(u, id) ==
    /\ resp' = Response("reconnect", u, id, ReconnectBody(db, u, id))
    /\ log' = ReconnectLog(db, u, id)
    /\ UNCHANGED <<view, auth>>
    /\ UNCHANGED <<db, lastID, uuidCtr, clock, serverTz, reqs, kiteInstances, brokerCall, exchangeCall, given>>

----
\* POST /test/:connectionId, GET /positions/:connectionId, GET /holdings/:connectionId

\* The checks with the expiry compared by <= instead of <.
DataPrecheckInclusive(d, u, id, now, notFound, expired) ==
    IF ~OwnedActiveRow(d, u, id)
    THEN Body(404, "NotFound", notFound, NULL)
    ELSE IF ~Truthy(d[id].access_token)
    THEN Body(400, "NotAuthenticated", "No access token found. Please authenticate first.", NULL)
    ELSE IF TruthyInt(d[id].access_token_expires_at) /\ d[id].access_token_expires_at[1] <= now
    THEN Body(400, "TokenExpired", expired, NULL)
    ELSE Body(0, "call", "", NULL)

\* The checks the three handlers make before they call the broker; "call"
\* when all pass.
DataPrecheck(d, u, id, now, notFound, expired) ==
    IF ~OwnedActiveRow(d, u, id)
    THEN Body(404, "NotFound", notFound, NULL)
    ELSE IF ~Truthy(d[id].access_token)
    THEN Body(400, "NotAuthenticated", "No access token found. Please authenticate first.", NULL)
    ELSE IF TruthyInt(d[id].access_token_expires_at) /\ d[id].access_token_expires_at[1] < now
    THEN Body(400, "TokenExpired", expired, NULL)
    ELSE Body(0, "call", "", NULL)

\* The answer after the broker call returned or threw.
BrokerCallBody(outcome, failed) ==
    IF outcome = "ok" THEN Body(200, "ok", "", NULL)
    ELSE Body(500, "UpstreamFailure", failed, NULL)

TestConnectionBody(d, u, id, now, outcome) ==
    LET pre == DataPrecheck(d, u, id, now, "Broker connection not found",
                            "Access token has expired. Please reconnect your account.")
    IN IF pre.kind # "call" THEN pre ELSE BrokerCallBody(outcome, "Connection test failed")

GetPositionsBody(d, u, id, now, outcome) ==
    LET pre == DataPrecheck(d, u, id, now, "Broker connection not found or inactive",
                            "Access token has expired. Please reconnect your account.")
    IN IF pre.kind # "call" THEN pre
       ELSE IF toLowerCase(d[id].broker_name) # "zerodha"
       THEN Body(400, "UnsupportedOperation", "Real-time positions not supported", NULL)
       ELSE BrokerCallBody(outcome, "Failed to fetch positions from broker")

GetHoldingsBody(d, u, id, now, outcome) ==
    LET pre == DataPrecheck(d, u, id, now, "Broker connection not found or inactive",
                            "Access token has expired. Please reconnect your account.")
    IN IF pre.kind # "call" THEN pre
       ELSE IF toLowerCase(d[id].broker_name) # "zerodha"
       THEN Body(400, "UnsupportedOperation", "Real-time holdings not supported", NULL)
       ELSE BrokerCallBody(outcome, "Failed to fetch holdings from broker")

\* The answer of the handler of op, were the broker call to end in outcome.
DataBody(op, d, u, id, now, outcome) ==
    CASE op = "test"      -> TestConnectionBody(d, u, id, now, outcome)
      [] op = "positions" -> GetPositionsBody(d, u, id, now, outcome)
      [] op = "holdings"  -> GetHoldingsBody(d, u, id, now, outcome)

\* kiteService's client handle for a connection, given as the access token
\* the handle carries: a cached handle is reused, otherwise the stored token is
\* read and decrypted and a handle is built from it. NULL when none can be
\* built (no row, no stored token); the call then throws.
getKiteInstance(cache, d, id) ==
    IF id \in DOMAIN cache THEN cache[id]
    ELSE IF id \in DOMAIN d /\ Truthy(d[id].access_token) THEN decryptData(d[id].access_token)
    ELSE NULL

\* The cache once the handle built with token is kept for the connection.
CacheInstance(cache, id, token) ==
    [i \in DOMAIN cache \cup {id} |-> IF i = id THEN token ELSE cache[i]]

\* kiteService.clearCachedInstance(connectionId)
clearCachedInstance(cache, id) == [i \in DOMAIN cache \ {id} |-> cache[i]]

\* A data handler up to the answer of its SELECT: the checks on the row are
\* made, and the handler answers or goes on to kiteService with the
\* connection id. The row it read stays with the handler.
DataLookup(s, op, u, id) ==
    /\ FreeSlot(s)
    /\ LET pre == DataBody(op, db, u, id, clock, "ok")
       IN IF pre.kind # "ok"
          THEN /\ resp' = Response(op, u, id, pre)
               /\ UNCHANGED reqs
          ELSE /\ reqs' = [reqs EXCEPT ![s] =
                             [pc |-> "broker", op |-> op, user |-> u, id |-> id,
                              failed |-> DataBody(op, db, u, id, clock, "throws").error]]
               /\ UNCHANGED resp
    /\ UNCHANGED <<db, lastID, uuidCtr, clock, serverTz, kiteInstances, brokerCall, exchangeCall, given>>
    /\ log' = NoLog
    /\ UNCHANGED <<view, auth>>

TestConnection(s, u, id) == DataLookup(s, "test", u, id)

GetPositions(s, u, id) == DataLookup(s, "positions", u, id)

GetHoldings(s, u, id) == DataLookup(s, "holdings", u, id)

\* The rest of a data handler: kiteService takes the connection's handle,
\* issues the call to the broker with the handle's token, and the handler
\* answers with the result or with the failure.
KiteServiceCall(s) ==
    /\ reqs[s].pc = "broker"
    /\ LET id == reqs[s].id
           token == getKiteInstance(kiteInstances, db, id)
       IN IF token = NULL
          THEN /\ resp' = Response(reqs[s].op, reqs[s].user, id, BrokerCallBody("throws", reqs[s].failed))
               /\ UNCHANGED <<kiteInstances, brokerCall>>
          ELSE /\ kiteInstances' = CacheInstance(kiteInstances, id, token)
               /\ brokerCall' = [id |-> id, token |-> token]
               /\ \E o \in BrokerCallOutcomes :
                     resp' = Response(reqs[s].op, reqs[s].user, id, BrokerCallBody(o, reqs[s].failed))
    /\ reqs' = [reqs EXCEPT ![s] = Idle]
    /\ UNCHANGED <<db, lastID, uuidCtr, clock, serverTz, exchangeCall, given>>
    /\ log' = NoLog
    /\ UNCHANGED <<view, auth>>

----
\* GET /auth/zerodha/callback

\* tomorrow = now; setDate(getDate() + 1); setHours(6, 0, 0, 0); getTime() / 1000:
\* 06:00 of the next calendar day in the server's local time zone.
ExpiresAt(now, tz) ==
    LET localDay == (now + tz) \div DAY
    IN (localDay + 1) * DAY + CUTOVER_HOUR * 3600 - tz

\* The checks before the lookup without the one on status.
CallbackPrecheckNoStatus(d, q) ==
    IF q.action # "login" \/ q.request_token = ""
    THEN Body(400, "AuthenticationFailed", "Zerodha authentication was not successful.", NULL)
    ELSE IF q.connection_id = 0
    THEN Body(400, "MissingConnectionId", "Connection ID is required for authentication.", NULL)
    ELSE IF q.connection_id \notin DOMAIN d
    THEN Body(404, "NotFound", "Broker connection not found.", NULL)
    ELSE Body(0, "lookup-ok", "", NULL)

\* The failure pages rendered before the token exchange, "lookup-ok" when the
\* request passes them.
CallbackPrecheck(d, q) ==
    IF q.action # "login" \/ q.status # "success" \/ q.request_token = ""
    THEN Body(400, "AuthenticationFailed", "Zerodha authentication was not successful.", NULL)
    ELSE IF q.connection_id = 0
    THEN Body(400, "MissingConnectionId", "Connection ID is required for authentication.", NULL)
    ELSE IF q.connection_id \notin DOMAIN d
    THEN Body(404, "NotFound", "Broker connection not found.", NULL)
    ELSE Body(0, "lookup-ok", "", NULL)

\* The UPDATE stamping the row with the broker whose callback this is.
CallbackUpdateStampsBroker(d, id, accessToken, publicToken, expiresAt) ==
    [i \in DOMAIN d |->
        IF i = id
        THEN [d[i] EXCEPT !.access_token = encryptData(accessToken),
                          !.public_token = encryptData(publicToken),
                          !.access_token_expires_at = <<expiresAt>>,
                          !.is_active = 1,
                          !.broker_name = "zerodha"]
        ELSE d[i]]

\* The UPDATE without its WHERE clause.
CallbackUpdateAllRows(d, id, accessToken, publicToken, expiresAt) ==
    [i \in DOMAIN d |->
        [d[i] EXCEPT !.access_token = encryptData(accessToken),
                     !.public_token = encryptData(publicToken),
                     !.access_token_expires_at = <<expiresAt>>,
                     !.is_active = 1]]

\* UPDATE broker_connections SET access_token = ?, public_token = ?,
\* access_token_expires_at = ?, is_active = 1 ... WHERE id = ?
CallbackUpdate(d, id, accessToken, publicToken, expiresAt) ==
    [i \in DOMAIN d |->
        IF i = id
        THEN [d[i] EXCEPT !.access_token = encryptData(accessToken),
                          !.public_token = encryptData(publicToken),
                          !.access_token_expires_at = <<expiresAt>>,
                          !.is_active = 1]
        ELSE d[i]]

\* The callback up to the answer of SELECT * ... WHERE id = ?. Both routers
\* of the source define the handler; router names the one that runs.
CallbackBegin(s, q, router) ==
    /\ FreeSlot(s)
    /\ LET pre == CallbackPrecheck(db, q)
       IN IF pre.kind # "lookup-ok"
          THEN /\ resp' = Response("callback", "none", q.connection_id, pre)
               /\ UNCHANGED reqs
          ELSE /\ reqs' = [reqs EXCEPT ![s] =
                             [pc |-> "exchange", q |-> q, router |-> router,
                              api_key |-> db[q.connection_id].api_key,
                              api_secret |-> db[q.connection_id].api_secret]]
               /\ UNCHANGED resp
    /\ UNCHANGED <<db, lastID, uuidCtr, clock, serverTz, kiteInstances, brokerCall, exchangeCall, given>>
    /\ log' = NoLog
    /\ UNCHANGED <<view, auth>>

\* The handler of the router that starts at line 544.
CallbackLookup(s, q) == CallbackBegin(s, q, "second")

\* The handler of the router that starts at line 11.
CallbackLookupFirst(s, q) == CallbackBegin(s, q, "first")

\* The exchange counted as failed only when it throws.
ExchangeFailedOnlyOnThrow(r) == ~r.ok

\* catch of a throw, and if (!accessTokenResponse || !accessTokenResponse.access_token)
ExchangeFailed(r) == ~r.ok \/ ~Truthy(r.access_token)

\* The callback up to the answer of kiteService.generateAccessToken: the
\* credentials are decrypted, the broker answers, and the expiry is computed.
CallbackExchange(s) ==
    /\ reqs[s].pc = "exchange"
    /\ LET apiKey == decryptData(reqs[s].api_key)
           apiSecret == decryptData(reqs[s].api_secret)
       IN /\ exchangeCall' = [apiKey |-> apiKey, apiSecret |-> apiSecret,
                              request_token |-> reqs[s].q.request_token]
          /\ \E r \in ExchangeOutcomes(apiKey, apiSecret, reqs[s].q.request_token) :
                IF ExchangeFailed(r)
                THEN /\ resp' = Response("callback", "none", reqs[s].q.connection_id,
                                  Body(500, "AuthenticationError", "Failed to complete authentication", NULL))
                     /\ reqs' = [reqs EXCEPT ![s] = Idle]
                ELSE /\ reqs' = [reqs EXCEPT ![s] =
                                   [pc |-> "store", q |-> reqs[s].q, router |-> reqs[s].router,
                                    accessToken |-> r.access_token,
                                    publicToken |-> IF Truthy(r.public_token) THEN r.public_token ELSE EmptyStr,
                                    expiresAt |-> ExpiresAt(clock, serverTz)]]
                     /\ UNCHANGED resp
    /\ UNCHANGED <<db, lastID, uuidCtr, clock, serverTz, kiteInstances, brokerCall, given>>
    /\ log' = NoLog
    /\ UNCHANGED <<view, auth>>

\* The UPDATE of the callback runs in the database.
CallbackStore(s) ==
    /\ reqs[s].pc = "store"
    /\ db' = CallbackUpdate(db, reqs[s].q.connection_id, reqs[s].accessToken,
                            reqs[s].publicToken, reqs[s].expiresAt)
    /\ reqs' = [reqs EXCEPT ![s] =
                  [pc |-> "finish", q |-> reqs[s].q, router |-> reqs[s].router,
                   expiresAt |-> reqs[s].expiresAt]]
    /\ UNCHANGED <<lastID, uuidCtr, clock, serverTz, resp, kiteInstances, brokerCall, exchangeCall, given>>
    /\ log' = NoLog
    /\ UNCHANGED <<view, auth>>

\* The callback after the UPDATE: the second router clears the connection's
\* cached handle, the first does not; both render the success page.
CallbackFinish(s) ==
    /\ reqs[s].pc = "finish"
    /\ kiteInstances' = IF reqs[s].router = "second"
                        THEN clearCachedInstance(kiteInstances, reqs[s].q.connection_id)
                        ELSE kiteInstances
    /\ resp' = Response("callback", "none", reqs[s].q.connection_id,
                  Body(200, "ok", "Authentication Successful", <<reqs[s].expiresAt>>))
    /\ reqs' = [reqs EXCEPT ![s] = Idle]
    /\ UNCHANGED <<db, lastID, uuidCtr, clock, serverTz, brokerCall, exchangeCall, given>>
    /\ log' = NoLog
    /\ UNCHANGED <<view, auth>>

----
\* The store after construction: an empty table.
Init ==
    /\ db = [i \in {} |-> 0]
    /\ lastID = 0
    /\ uuidCtr = 0
    /\ clock = 1000
    /\ serverTz = 0
    /\ reqs = [s \in Slots |-> Idle]
    /\ resp = NoResponse
    /\ kiteInstances = [i \in {} |-> 0]
    /\ brokerCall = NoBrokerCall
    /\ exchangeCall = NoExchangeCall
    /\ given = [i \in {} |-> 0]
    /\ log = NoLog
    /\ view = NoView
    /\ auth = NoAuth

\* GET /connections
ListConnections(u) ==
    /\ resp' = Response("list", u, 0, ListConnectionsBody(db, u, clock))
    /\ UNCHANGED <<db, lastID, uuidCtr, clock, serverTz, reqs, kiteInstances, brokerCall, exchangeCall, given>>
    /\ log' = NoLog
    /\ UNCHANGED <<view, auth>>

\* GET /connections/:id
GetConnection(u, id) ==
    /\ resp' = Response("get", u, id, GetConnectionBody(db, u, id, clock))
    /\ UNCHANGED <<db, lastID, uuidCtr, clock, serverTz, reqs, kiteInstances, brokerCall, exchangeCall, given>>
    /\ log' = NoLog
    /\ UNCHANGED <<view, auth>>

\* Time passes.
Tick(times) ==
    /\ \E t \in times : t > clock /\ clock' = t
    /\ UNCHANGED <<db, lastID, uuidCtr, serverTz, reqs, resp, kiteInstances, brokerCall, exchangeCall, given>>
    /\ log' = NoLog
    /\ UNCHANGED <<view, auth>>

----
\* Spec: the connection lifecycle. u1 creates connections, u1 and u2 issue
\* every other request on every id, one request at a time is suspended.
Creators == {"u1"}

Next ==
    \/ \E u \in Users : ListConnections(u)
    \/ \E u \in Users, id \in ConnIds : GetConnection(u, id)
    \/ \E u \in Creators, inp \in ConnectInputs : ConnectCheck(1, u, inp, MaxConns)
    \/ ConnectInsert(1)
    \/ \E u \in Users, id \in ConnIds : Disconnect(u, id)
    \/ \E u \in Users, id \in ConnIds : Delete(u, id)
    \/ \E u \in Users, id \in ConnIds : Reconnect(u, id)
    \/ \E q \in CallbackInputs : CallbackLookup(1, q)
    \/ CallbackExchange(1)
    \/ CallbackStore(1)
    \/ CallbackFinish(1)

Spec == Init /\ [][Next]_vars

----
\* SpecClock: the derived view fields over time. u1 creates OAuth connections
\* and authenticates them, the clock advances through Times, and u1 reads the
\* views. The server runs in UTC or in IST.
ServerTzs == {0, IST}

InitClock ==
    /\ db = [i \in {} |-> 0]
    /\ lastID = 0
    /\ uuidCtr = 0
    /\ clock = 1000
    /\ serverTz \in ServerTzs
    /\ reqs = [s \in Slots |-> Idle]
    /\ resp = NoResponse
    /\ kiteInstances = [i \in {} |-> 0]
    /\ brokerCall = NoBrokerCall
    /\ exchangeCall = NoExchangeCall
    /\ given = [i \in {} |-> 0]
    /\ log = NoLog
    /\ view = NoView
    /\ auth = NoAuth

ClockInputs == {inp \in ConnectInputs : inp.brokerName = "Zerodha" /\ inp.apiKey # ""}

NextClock ==
    \/ \E inp \in ClockInputs : ConnectCheck(1, "u1", inp, MaxConns)
    \/ ConnectInsert(1)
    \/ \E id \in ConnIds : CallbackLookup(1, CallbackQuery("rt1", "success", id))
    \/ CallbackExchange(1)
    \/ CallbackStore(1)
    \/ CallbackFinish(1)
    \/ Tick(Times)
    \/ ListConnections("u1")
    \/ \E id \in ConnIds : GetConnection("u1", id)

SpecClock == InitClock /\ [][NextClock]_vars

----
\* SpecLimit: the connection limit. u1 starts with four active connections
\* (the table after four POST /connect requests of u1); two requests may be
\* suspended at once; disconnect and delete name the last stored connection
\* and the new ones, reconnect and the callback the last stored connection.
StoredAtStart == MAX_CONNECTIONS - 1

StartRow(i) ==
    NewRow("u1", [brokerName |-> "zerodha", apiKey |-> "k1", apiSecret |-> "s1"],
           WebhookUrl("u1", uuidv4(i)))

InitLimit ==
    /\ db = [i \in 1..StoredAtStart |-> StartRow(i)]
    /\ lastID = StoredAtStart
    /\ uuidCtr = StoredAtStart
    /\ clock = 1000
    /\ serverTz = 0
    /\ reqs = [s \in Slots |-> Idle]
    /\ resp = NoResponse
    /\ kiteInstances = [i \in {} |-> 0]
    /\ brokerCall = NoBrokerCall
    /\ exchangeCall = NoExchangeCall
    /\ given = [i \in 1..StoredAtStart |-> [apiKey |-> "k1", apiSecret |-> "s1"]]
    /\ log = NoLog
    /\ view = NoView
    /\ auth = NoAuth

LimitCap == StoredAtStart + MaxConns
LimitIds == StoredAtStart..LimitCap
LimitInputs == {inp \in ConnectInputs : inp.brokerName = "Zerodha"}

NextLimit ==
    \/ \E s \in Slots, inp \in LimitInputs : ConnectCheck(s, "u1", inp, LimitCap)
    \/ \E s \in Slots : ConnectInsert(s)
    \/ \E id \in LimitIds : Disconnect("u1", id)
    \/ \E id \in LimitIds : Delete("u1", id)
    \/ Reconnect("u1", StoredAtStart)
    \/ \E s \in Slots : CallbackLookup(s, CallbackQuery("rt1", "success", StoredAtStart))
    \/ \E s \in Slots : CallbackExchange(s)
    \/ \E s \in Slots : CallbackStore(s)
    \/ \E s \in Slots : CallbackFinish(s)

SpecLimit == InitLimit /\ [][NextLimit]_vars

----
\* SpecRace: concurrent POST /connect requests, two at a time, of u1, who has
\* four active connections, and of u2, who has none; nothing else runs.
NextRace ==
    \/ \E s \in Slots, u \in Users, inp \in ConnectInputs : ConnectCheck(s, u, inp, LimitCap)
    \/ \E s \in Slots : ConnectInsert(s)

SpecRace == InitLimit /\ [][NextRace]_vars

----
\* SpecRotate: token rotation against data calls on one connection. u1
\* creates one OAuth connection; callbacks of the second router store the
\* token of request token rt1 or rt2; u1 tests the connection and reads its
\* positions and holdings; two requests may be suspended at once.
RotateIds == {1}
RotateTokens == {"rt1", "rt2"}
RotateInputs == {inp \in ConnectInputs : inp.brokerName = "Zerodha" /\ inp.apiKey # ""}

NextRotate ==
    \/ \E s \in Slots, inp \in RotateInputs : ConnectCheck(s, "u1", inp, Cardinality(RotateIds))
    \/ \E s \in Slots : ConnectInsert(s)
    \/ \E s \in Slots, rt \in RotateTokens, id \in RotateIds :
          CallbackLookup(s, CallbackQuery(rt, "success", id))
    \/ \E s \in Slots : CallbackExchange(s)
    \/ \E s \in Slots : CallbackStore(s)
    \/ \E s \in Slots : CallbackFinish(s)
    \/ \E s \in Slots, id \in RotateIds : TestConnection(s, "u1", id)
    \/ \E s \in Slots, id \in RotateIds : GetPositions(s, "u1", id)
    \/ \E s \in Slots, id \in RotateIds : GetHoldings(s, "u1", id)
    \/ \E s \in Slots : KiteServiceCall(s)

SpecRotate == Init /\ [][NextRotate]_vars

\* SpecCache: SpecRotate with the callback handler of the first router added.
NextCache ==
    \/ NextRotate
    \/ \E s \in Slots, rt \in RotateTokens, id \in RotateIds :
          CallbackLookupFirst(s, CallbackQuery(rt, "success", id))

SpecCache == Init /\ [][NextCache]_vars

----
\* SpecReconnect: POST /reconnect/:connectionId on a table that holds one row
\* of any owner and broker, among them rows the handler calls legacy or
\* corrupted: api_key or api_secret NULL or ''. No request of the routers
\* writes such a row (POST /connect refuses empty credentials), so the table
\* is drawn in the initial state.
StoredKeys == {encryptData("k1"), NULL, EmptyStr}
StoredSecrets == {encryptData("s1"), NULL}

StoredRows ==
    {[StartRow(1) EXCEPT !.user_id = u, !.broker_name = b, !.api_key = k, !.api_secret = c]
        : u \in Users, b \in {"zerodha", "upstox"}, k \in StoredKeys, c \in StoredSecrets}

InitReconnect ==
    /\ db \in {[i \in {1} |-> row] : row \in StoredRows}
    /\ lastID = 1
    /\ uuidCtr = 1
    /\ clock = 1000
    /\ serverTz = 0
    /\ reqs = [s \in Slots |-> Idle]
    /\ resp = NoResponse
    /\ kiteInstances = [i \in {} |-> 0]
    /\ brokerCall = NoBrokerCall
    /\ exchangeCall = NoExchangeCall
    /\ given = [i \in {} |-> 0]
    /\ log = NoLog
    /\ view = NoView
    /\ auth = NoAuth

NextReconnect == \E u \in Users, id \in ConnIds : Reconnect(u, id)

SpecReconnect == InitReconnect /\ [][NextReconnect]_vars

----
\* SpecCreate: POST /connect with any broker name a client may send, among
\* them one the registry does not list; u1 and u2 create, disconnect and
\* delete connections.
AnyBrokerInputs ==
    ConnectInputs \cup
      {[brokerName |-> b, apiKey |-> "k1", apiSecret |-> "s1"] : b \in {"5paisa", "binance"}}

NextCreate ==
    \/ \E u \in Users, inp \in AnyBrokerInputs : ConnectCheck(1, u, inp, MaxConns)
    \/ ConnectInsert(1)
    \/ \E u \in Users, id \in ConnIds : Disconnect(u, id)
    \/ \E u \in Users, id \in ConnIds : Delete(u, id)

SpecCreate == Init /\ [][NextCreate]_vars

----
\* SpecVault: credentials through the vault. u1 creates OAuth connections
\* with different API keys and secrets, reconnects them and completes
\* callbacks for them.
VaultInputs ==
    {[brokerName |-> "zerodha", apiKey |-> k, apiSecret |-> c]
        : k \in {"k1", "k2"}, c \in {"s1", "s2"}}

NextVault ==
    \/ \E inp \in VaultInputs : ConnectCheck(1, "u1", inp, MaxConns)
    \/ ConnectInsert(1)
    \/ \E id \in ConnIds : Reconnect("u1", id)
    \/ \E id \in ConnIds : CallbackLookup(1, CallbackQuery("rt1", "success", id))
    \/ CallbackExchange(1)
    \/ CallbackStore(1)
    \/ CallbackFinish(1)

SpecVault == Init /\ [][NextVault]_vars

----
\* SpecData: the data handlers over time. u1 creates OAuth connections,
\* authenticates and disconnects them, the clock advances through Times, and
\* u1 tests the connections and reads their positions and holdings.
DataOps == {"test", "positions", "holdings"}

NextData ==
    \/ \E inp \in ClockInputs : ConnectCheck(1, "u1", inp, MaxConns)
    \/ ConnectInsert(1)
    \/ \E id \in ConnIds : CallbackLookup(1, CallbackQuery("rt1", "success", id))
    \/ CallbackExchange(1)
    \/ CallbackStore(1)
    \/ CallbackFinish(1)
    \/ \E id \in ConnIds : Disconnect("u1", id)
    \/ Tick(Times)
    \/ \E id \in ConnIds : TestConnection(1, "u1", id)
    \/ \E id \in ConnIds : GetPositions(1, "u1", id)
    \/ \E id \in ConnIds : GetHoldings(1, "u1", id)
    \/ KiteServiceCall(1)

SpecData == Init /\ [][NextData]_vars

----
\* POST /refresh-token/:connectionId, defined by both routers of the source.

\* The handler of the router that starts at line 544 (marked deprecated):
\* the active row of the caller, its credentials, then a Zerodha login URL
\* whatever the row's broker.
RefreshTokenBody(d, u, id) ==
    IF ~OwnedActiveRow(d, u, id)
    THEN Body(404, "NotFound", "Broker connection not found or inactive", NULL)
    ELSE IF ~Truthy(d[id].api_key) \/ ~Truthy(d[id].api_secret)
    THEN Body(400, "MissingCredentials", "Missing API credentials. Please update your connection settings.", NULL)
    ELSE Body(200, "ok", "",
              [loginUrl |-> LoginUrl(decryptData(d[id].api_key), RedirectUrl(id, "reconnect")),
               requiresAuth |-> TRUE])

\* The handler of the router that starts at line 11: the row of the caller,
\* a login URL for zerodha, an error for every other broker.
RefreshTokenBodyFirst(d, u, id) ==
    IF ~OwnedRow(d, u, id)
    THEN Body(404, "NotFound", "Broker connection not found", NULL)
    ELSE IF toLowerCase(d[id].broker_name) = "zerodha"
    THEN Body(200, "ok", "",
              [loginUrl |-> LoginUrl(decryptData(d[id].api_key), RedirectUrl(id, "refresh")),
               requiresAuth |-> TRUE])
    ELSE Body(400, "UnsupportedOperation", "Token refresh not implemented for this broker", NULL)

\* What the handlers write to the log: the second router nothing of the row,
\* the first the row as JSON and the login URL.
RefreshTokenLog(d, u, id, router) ==
    IF router = "second" \/ ~OwnedRow(d, u, id) THEN NoLog
    ELSE [rows |-> {d[id]},
          ciphertexts |-> {},
          loginUrls |-> IF toLowerCase(d[id].broker_name) = "zerodha"
                        THEN {LoginUrl(decryptData(d[id].api_key), RedirectUrl(id, "refresh"))}
                        ELSE {}]

RefreshToken(u, id, router) ==
    /\ resp' = Response("refresh-token", u, id,
                        IF router = "second" THEN RefreshTokenBody(db, u, id)
                        ELSE RefreshTokenBodyFirst(db, u, id))
    /\ log' = RefreshTokenLog(db, u, id, router)
    /\ UNCHANGED <<view, auth>>
    /\ UNCHANGED <<db, lastID, uuidCtr, clock, serverTz, reqs, kiteInstances, brokerCall, exchangeCall, given>>

----
\* POST /sync/positions/:connectionId

\* The handler up to the answer of its SELECT: the caller's active row is all
\* it asks for before it goes on to kiteService.getPositions.
SyncPositions(s, u, id) ==
    /\ FreeSlot(s)
    /\ IF ~OwnedActiveRow(db, u, id)
       THEN /\ resp' = Response("sync", u, id, Body(404, "NotFound", "Broker connection not found", NULL))
            /\ UNCHANGED reqs
       ELSE /\ reqs' = [reqs EXCEPT ![s] = [pc |-> "sync", op |-> "sync", user |-> u, id |-> id]]
            /\ UNCHANGED resp
    /\ UNCHANGED <<db, lastID, uuidCtr, clock, serverTz, kiteInstances, brokerCall, exchangeCall, given>>
    /\ log' = NoLog
    /\ UNCHANGED <<view, auth>>

\* The rest of the handler: kiteService issues the call with the handle's
\* token; the handler answers 200 with the positions, or, when the call
\* throws, 200 with the built-in mock positions.
SyncPositionsCall(s) ==
    /\ reqs[s].pc = "sync"
    /\ LET id == reqs[s].id
           token == getKiteInstance(kiteInstances, db, id)
       IN IF token = NULL
          THEN /\ resp' = Response("sync", reqs[s].user, id, Body(200, "mock", "", NULL))
               /\ UNCHANGED <<kiteInstances, brokerCall>>
          ELSE /\ kiteInstances' = CacheInstance(kiteInstances, id, token)
               /\ brokerCall' = [id |-> id, token |-> token]
               /\ \E o \in BrokerCallOutcomes :
                     resp' = Response("sync", reqs[s].user, id,
                                      IF o = "ok" THEN Body(200, "ok", "", NULL)
                                      ELSE Body(200, "mock", "", NULL))
    /\ reqs' = [reqs EXCEPT ![s] = Idle]
    /\ UNCHANGED <<db, lastID, uuidCtr, clock, serverTz, exchangeCall, given>>
    /\ log' = NoLog
    /\ UNCHANGED <<view, auth>>

----
\* The dashboard's positions aggregate (Positions.tsx). The component holds
\* the authenticated connections it loaded on mount; fetchPositionsData asks
\* the API for the positions of each selected one in turn.
MaxSelected == 3

MaxTimers == 3

MaxListed == 2

Digits == <<"1", "2", "3", "4", "5", "6", "7", "8", "9">>

\* Number.prototype.toString for a connection id
toString(n) == Digits[n]

RangeOf(q) == {q[k] : k \in DOMAIN q}

\* How brokerAPI.getPositions(id) settles: rejected (any non-2xx answer of
\* GET /connections/:id/positions or a network error), or resolved with
\* data.positions (an absent list and an empty one take the same branch). A
\* position carries its quantity under quantity or under net_quantity; 0
\* stands for an absent or zero field, both falsy.
FetchOutcomes ==
    { [ok |-> FALSE, positions |-> <<>>],
      [ok |-> TRUE, positions |-> <<>>],
      [ok |-> TRUE, positions |-> <<[symbol |-> "INFY", quantity |-> 5, net_quantity |-> 0, pnl |-> 7]>>],
      [ok |-> TRUE, positions |-> <<[symbol |-> "TCS", quantity |-> 0, net_quantity |-> 0, pnl |-> 0],
                                    [symbol |-> "SBIN", quantity |-> 0, net_quantity |-> -2, pnl |-> -3]>>] }

\* response.data.positions.map(...): the unified position of one raw entry
FormatPosition(pos, connection) ==
    [symbol |-> pos.symbol,
     quantity |-> IF pos.quantity # 0 THEN pos.quantity ELSE pos.net_quantity,
     pnl |-> pos.pnl,
     broker_name |-> connection.broker_name,
     connection_id |-> connection.id]

Abs(n) == IF n < 0 THEN -n ELSE n

\* allPositions.filter(pos => Math.abs(pos.quantity) > 0)
ActivePositions(all) == SelectSeq(all, LAMBDA pos : Abs(pos.quantity) > 0)

\* calculatePnLSummary, reduced to the fields the model's positions carry:
\* null for no position, else the count and the sum of the pnl fields.
RECURSIVE SumPnl(_)
SumPnl(q) == IF q = <<>> THEN 0 ELSE Head(q).pnl + SumPnl(Tail(q))

calculatePnLSummary(positions) ==
    IF Len(positions) = 0 THEN NULL ELSE <<Len(positions), SumPnl(positions)>>

\* brokerConnections.filter(conn => selectedBroker === 'all' || conn.id.toString() === selectedBroker)
SelectedConnections(v) ==
    SelectSeq(v.brokerConnections,
              LAMBDA conn : v.selectedBroker = "all" \/ toString(conn.id) = v.selectedBroker)

\* The state values a render's functions see.
Closure(v) == [brokerConnections |-> v.brokerConnections, selectedBroker |-> v.selectedBroker]

\* fetchPositionsData up to its first await, run by a function of the render
\* that captured c: nothing selected clears the positions and returns; else
\* the loop starts at the first connection.
StartFetch(v, c) ==
    LET active == SelectedConnections(c)
    IN IF Len(active) = 0
       THEN [v EXCEPT !.positions = <<>>, !.pnlSummary = NULL,
                      !.activeConnections = <<>>,
                      !.fetched = [i \in {} |-> [ok |-> TRUE, positions |-> <<>>]]]
       ELSE [v EXCEPT !.pc = "loop", !.activeConnections = active, !.i = 1,
                      !.allPositions = <<>>,
                      !.connectionStatuses = [i \in {} |-> TRUE],
                      !.fetched = [i \in {} |-> [ok |-> TRUE, positions |-> <<>>]]]

\* fetchPositionsData called from the current render (the Refresh button,
\* shown once loading is over).
fetchPositionsData ==
    /\ view.pc = "idle"
    /\ view.isComponentMounted /\ ~view.loading
    /\ view' = StartFetch(view, Closure(view))
    /\ UNCHANGED <<db, lastID, uuidCtr, clock, serverTz, reqs, resp, kiteInstances, brokerCall, exchangeCall, given, log, auth>>

\* One pass of the loop body (the inner try/catch) for the connection the
\* loop stands at, given how its request settled.
FetchSettled(v, out) ==
    LET connection == v.activeConnections[v.i]
        formatted == [k \in DOMAIN out.positions |-> FormatPosition(out.positions[k], connection)]
    IN [v EXCEPT !.connectionStatuses =
                     [id \in DOMAIN v.connectionStatuses \cup {connection.id} |->
                        IF id = connection.id THEN out.ok ELSE v.connectionStatuses[id]],
                 !.allPositions = IF out.ok THEN v.allPositions \o formatted ELSE v.allPositions,
                 !.fetched = [id \in DOMAIN v.fetched \cup {connection.id} |->
                                IF id = connection.id THEN out ELSE v.fetched[id]],
                 !.i = v.i + 1]

\* After the loop: filter, setPositions, setConnectionStatus,
\* calculatePnLSummary, setLastUpdateTime.
FetchFinish(v, now) ==
    LET activePositions == ActivePositions(v.allPositions)
    IN [v EXCEPT !.positions = activePositions,
                 !.connectionStatus = v.connectionStatuses,
                 !.pnlSummary = calculatePnLSummary(activePositions),
                 !.lastUpdateTime = <<now>>,
                 !.pc = "idle"]

\* The finally of fetchInitialData, when it was awaiting this call.
InitialDataDone(v) ==
    IF v.initial = "fetching" THEN [v EXCEPT !.loading = FALSE, !.initial = "done"] ELSE v

\* The loop with the try/catch around it instead of inside it: a rejected
\* request ends the call and nothing is set.
getPositionsSettledAborts(out) ==
    /\ view.pc = "loop"
    /\ LET v == FetchSettled(view, out)
       IN view' = IF ~out.ok
                  THEN [view EXCEPT !.pc = "idle", !.fetched = v.fetched]
                  ELSE IF v.i > Len(v.activeConnections) THEN FetchFinish(v, clock) ELSE v
    /\ UNCHANGED <<db, lastID, uuidCtr, clock, serverTz, reqs, resp, kiteInstances, brokerCall, exchangeCall, given, log, auth>>

\* fetchPositionsData resumed when the awaited brokerAPI.getPositions
\* settles: the loop body runs and, after the last connection, the rest of
\* the function.
getPositionsSettled(out) ==
    /\ view.pc = "loop"
    /\ LET v == FetchSettled(view, out)
       IN view' = IF v.i > Len(v.activeConnections)
                  THEN InitialDataDone(FetchFinish(v, clock))
                  ELSE v
    /\ UNCHANGED <<db, lastID, uuidCtr, clock, serverTz, reqs, resp, kiteInstances, brokerCall, exchangeCall, given, log, auth>>

\* stopLiveUpdates forgetting the timer without clearing it.
stopLiveUpdatesKeepsTimer(v) ==
    IF v.intervalRef # NULL
    THEN [v EXCEPT !.intervalRef = NULL]
    ELSE v

\* Positions.tsx 200-205: clearInterval on the timer the ref holds.
stopLiveUpdates(v) ==
    IF v.intervalRef # NULL
    THEN [v EXCEPT !.timers = v.timers \ {v.intervalRef[1]}, !.intervalRef = NULL]
    ELSE v

\* Positions.tsx 188-198 (startLiveUpdates), run by the render that captured c: the timer the
\* ref holds is cleared; with connections a new interval timer is set.
startLiveUpdates(v, c) ==
    LET w == stopLiveUpdates(v)
    IN IF Len(c.brokerConnections) = 0 THEN w
       ELSE [w EXCEPT !.timers = w.timers \cup {w.nextTimer},
                      !.intervalRef = <<w.nextTimer>>,
                      !.nextTimer = w.nextTimer + 1,
                      !.timerClosure = c]

\* The effect on [isLiveUpdating, updateInterval, selectedBroker] after a
\* render with a changed value: the cleanup of the previous run
\* (stopLiveUpdates), then the effect of the new render.
LiveEffect(v) ==
    LET w == stopLiveUpdates(v)
    IN IF w.isLiveUpdating THEN startLiveUpdates(w, Closure(w)) ELSE stopLiveUpdates(w)

\* The broker filter's onChange: 'all' or the id of a listed connection.
setSelectedBroker(b) ==
    /\ view.isComponentMounted /\ ~view.loading
    /\ view.nextTimer <= MaxTimers
    /\ b \in {"all"} \cup {toString(conn.id) : conn \in RangeOf(view.brokerConnections)}
    /\ b # view.selectedBroker
    /\ view' = LiveEffect([view EXCEPT !.selectedBroker = b])
    /\ UNCHANGED <<db, lastID, uuidCtr, clock, serverTz, reqs, resp, kiteInstances, brokerCall, exchangeCall, given, log, auth>>

\* SpecAggregate: the component after mount, holding up to MaxSelected
\* authenticated connections; the user picks a filter and refreshes, and
\* each request settles in any of FetchOutcomes.
InitAggregate ==
    /\ db = [i \in {} |-> 0]
    /\ lastID = 0
    /\ uuidCtr = 0
    /\ clock = 1000
    /\ serverTz = 0
    /\ reqs = [s \in Slots |-> Idle]
    /\ resp = NoResponse
    /\ kiteInstances = [i \in {} |-> 0]
    /\ brokerCall = NoBrokerCall
    /\ exchangeCall = NoExchangeCall
    /\ given = [i \in {} |-> 0]
    /\ log = NoLog
    /\ auth = NoAuth
    /\ \E n \in 0..MaxSelected :
          view = [NoView EXCEPT !.brokerConnections =
                     [k \in 1..n |-> [id |-> k, broker_name |-> "zerodha"]],
                                !.loading = FALSE, !.initial = "done"]

NextAggregate ==
    \/ fetchPositionsData
    \/ \E out \in FetchOutcomes : getPositionsSettled(out)
    \/ \E b \in {"all"} \cup RangeOf(Digits) : setSelectedBroker(b)

SpecAggregate == InitAggregate /\ [][NextAggregate]_vars

----
\* The Positions component from its mount: fetchInitialData, the live-update
\* timer and the unmount.

\* What GET /connections may list for the user: connections active or
\* disconnected, authenticated or not.
ConnectionLists ==
    UNION { { [k \in 1..n |-> [id |-> k, broker_name |-> "zerodha",
                                 is_active |-> f[k][1], is_authenticated |-> f[k][2]]]
              : f \in [1..n -> {0, 1} \X {0, 1}] }
            : n \in 0..MaxListed }

\* The options of the interval select the model picks from.
UpdateIntervals == {3000, 5000}

\* The mount effect: fetchInitialData up to its await of getConnections. The
\* functions of this first render see the state as useState initialised it.
fetchInitialData ==
    /\ view.initial = "start"
    /\ view' = [view EXCEPT !.initial = "awaiting", !.loading = TRUE, !.closure = Closure(view)]
    /\ UNCHANGED <<db, lastID, uuidCtr, clock, serverTz, reqs, resp, kiteInstances, brokerCall, exchangeCall, given, log, auth>>

\* fetchInitialData resumed with the list: the active, authenticated
\* connections are kept, and if there is one, fetchPositionsData of the
\* mounting render is called and awaited; then loading ends.
ConnectionsLoaded(connections) ==
    /\ view.initial = "awaiting"
    /\ view.isComponentMounted
    /\ LET active == SelectSeq(connections,
                               LAMBDA conn : conn.is_active = 1 /\ conn.is_authenticated = 1)
           v == [view EXCEPT !.brokerConnections = active]
           w == IF Len(active) > 0 THEN StartFetch(v, view.closure) ELSE v
       IN view' = IF w.pc = "loop"
                  THEN [w EXCEPT !.initial = "fetching"]
                  ELSE [w EXCEPT !.loading = FALSE, !.initial = "done"]
    /\ UNCHANGED <<db, lastID, uuidCtr, clock, serverTz, reqs, resp, kiteInstances, brokerCall, exchangeCall, given, log, auth>>

\* getConnections rejected: the catch shows a toast and loading ends.
ConnectionsFailed ==
    /\ view.initial = "awaiting"
    /\ view.isComponentMounted
    /\ view' = [view EXCEPT !.loading = FALSE, !.initial = "done"]
    /\ UNCHANGED <<db, lastID, uuidCtr, clock, serverTz, reqs, resp, kiteInstances, brokerCall, exchangeCall, given, log, auth>>

\* The Live button: isLiveUpdating flips and the effect runs.
toggleLiveUpdates ==
    /\ view.isComponentMounted /\ ~view.loading
    /\ view.nextTimer <= MaxTimers
    /\ view' = LiveEffect([view EXCEPT !.isLiveUpdating = ~view.isLiveUpdating])
    /\ UNCHANGED <<db, lastID, uuidCtr, clock, serverTz, reqs, resp, kiteInstances, brokerCall, exchangeCall, given, log, auth>>

\* The interval select's onChange.
setUpdateInterval(ms) ==
    /\ view.isComponentMounted /\ ~view.loading
    /\ view.nextTimer <= MaxTimers
    /\ ms # view.updateInterval
    /\ view' = LiveEffect([view EXCEPT !.updateInterval = ms])
    /\ UNCHANGED <<db, lastID, uuidCtr, clock, serverTz, reqs, resp, kiteInstances, brokerCall, exchangeCall, given, log, auth>>

\* An interval timer fires: if (isComponentMounted.current) fetchPositionsData()
\* of the render that set the timer. (A firing while a call is still in its
\* loop starts a second call with variables of its own; the model follows
\* one call at a time.)
IntervalFires ==
    /\ view.timers # {}
    /\ view.pc = "idle"
    /\ view' = IF view.isComponentMounted THEN StartFetch(view, view.timerClosure) ELSE view
    /\ UNCHANGED <<db, lastID, uuidCtr, clock, serverTz, reqs, resp, kiteInstances, brokerCall, exchangeCall, given, log, auth>>

\* The component unmounts: the cleanups of both effects.
Unmount ==
    /\ view.isComponentMounted
    /\ view.initial # "start"
    /\ view' = stopLiveUpdates([view EXCEPT !.isComponentMounted = FALSE])
    /\ UNCHANGED <<db, lastID, uuidCtr, clock, serverTz, reqs, resp, kiteInstances, brokerCall, exchangeCall, given, log, auth>>

\* SpecView: the component from mount to unmount: the list arrives, the user
\* picks a filter and an interval, toggles live updates and refreshes, the
\* timer fires, and each positions request settles in any of FetchOutcomes.
InitView ==
    /\ db = [i \in {} |-> 0]
    /\ lastID = 0
    /\ uuidCtr = 0
    /\ clock = 1000
    /\ serverTz = 0
    /\ reqs = [s \in Slots |-> Idle]
    /\ resp = NoResponse
    /\ kiteInstances = [i \in {} |-> 0]
    /\ brokerCall = NoBrokerCall
    /\ exchangeCall = NoExchangeCall
    /\ given = [i \in {} |-> 0]
    /\ log = NoLog
    /\ auth = NoAuth
    /\ view = NoView

NextView ==
    \/ fetchInitialData
    \/ \E connections \in ConnectionLists : ConnectionsLoaded(connections)
    \/ ConnectionsFailed
    \/ fetchPositionsData
    \/ \E out \in FetchOutcomes : getPositionsSettled(out)
    \/ \E b \in {"all"} \cup RangeOf(Digits) : setSelectedBroker(b)
    \/ toggleLiveUpdates
    \/ \E ms \in UpdateIntervals : setUpdateInterval(ms)
    \/ IntervalFires
    \/ Unmount

SpecView == InitView /\ [][NextView]_vars

----
\* The authentication popup of the browser-side flows: handleZerodhaAuth of
\* BrokerConnection.tsx and handleReconnectNow of Overview.tsx, from the
\* moment they hold a login URL. auth.t counts the seconds since window.open;
\* auth.due holds the timer callbacks that are due at auth.t and have not run.
POPUP_TIMEOUT == 300

POLL_PERIOD == 1

REFETCH_DELAY == 2

Components == {"BrokerConnection", "Overview"}

\* window.open and what follows it in the same turn. opened = FALSE is a
\* popup blocker (window.open returns null). BrokerConnection keeps
\* authenticatingConnection set while the popup lives; Overview's finally
\* clears reconnectingConnection as soon as the popup is open.
OpenAuthWindow(c, id, opened) ==
    /\ auth.component = "none"
    /\ auth' = IF opened
               THEN [NoAuth EXCEPT !.component = c, !.window = "open",
                                   !.checkClosed = TRUE, !.timeout = TRUE,
                                   !.marker = IF c = "BrokerConnection" THEN id ELSE 0]
               ELSE [NoAuth EXCEPT !.component = c, !.window = "blocked"]
    /\ UNCHANGED <<db, lastID, uuidCtr, clock, serverTz, reqs, resp, kiteInstances, brokerCall, exchangeCall, given, log, view>>

\* The popup closes without the opener's doing: the user closes it, or the
\* page the callback rendered closes itself.
WindowCloses(by) ==
    /\ auth.window = "open"
    /\ auth' = [auth EXCEPT !.window = "closed", !.closedBy = by]
    /\ UNCHANGED <<db, lastID, uuidCtr, clock, serverTz, reqs, resp, kiteInstances, brokerCall, exchangeCall, given, log, view>>

\* One second passes; no timer callback is left to run at the current second.
AdvanceSecond ==
    /\ auth.due = {}
    /\ auth.checkClosed \/ auth.timeout \/ auth.refetchAt # NULL
    /\ LET t == auth.t + 1
       IN auth' = [auth EXCEPT
                     !.t = t,
                     !.due = {x \in {"checkClosed", "timeout", "refetch"} :
                                \/ x = "checkClosed" /\ auth.checkClosed /\ t % POLL_PERIOD = 0
                                \/ x = "timeout" /\ auth.timeout /\ t = POPUP_TIMEOUT
                                \/ x = "refetch" /\ auth.refetchAt = <<t>>}]
    /\ UNCHANGED <<db, lastID, uuidCtr, clock, serverTz, reqs, resp, kiteInstances, brokerCall, exchangeCall, given, log, view>>

\* The setInterval callback: a closed popup stops the interval and schedules
\* the re-fetch two seconds later.
checkClosed ==
    /\ "checkClosed" \in auth.due
    /\ auth' = IF auth.window = "closed"
               THEN [auth EXCEPT !.due = auth.due \ {"checkClosed"},
                                 !.checkClosed = FALSE,
                                 !.refetchAt = <<auth.t + REFETCH_DELAY>>]
               ELSE [auth EXCEPT !.due = auth.due \ {"checkClosed"}]
    /\ UNCHANGED <<db, lastID, uuidCtr, clock, serverTz, reqs, resp, kiteInstances, brokerCall, exchangeCall, given, log, view>>

\* The setTimeout(..., 300000) callback: a popup still open is closed and the
\* interval cleared; BrokerConnection also clears authenticatingConnection.
\* No re-fetch is scheduled.
AuthTimeout ==
    /\ "timeout" \in auth.due
    /\ auth' = IF auth.window = "open"
               THEN [auth EXCEPT !.due = auth.due \ {"timeout", "checkClosed"},
                                 !.timeout = FALSE,
                                 !.window = "closed", !.closedBy = "timeout",
                                 !.checkClosed = FALSE,
                                 !.marker = 0]
               ELSE [auth EXCEPT !.due = auth.due \ {"timeout"}, !.timeout = FALSE]
    /\ UNCHANGED <<db, lastID, uuidCtr, clock, serverTz, reqs, resp, kiteInstances, brokerCall, exchangeCall, given, log, view>>

\* The setTimeout(..., 2000) callback: fetchConnections / fetchDashboardData;
\* BrokerConnection also clears authenticationStep and authenticatingConnection.
Refetch ==
    /\ "refetch" \in auth.due
    /\ auth' = [auth EXCEPT !.due = auth.due \ {"refetch"}, !.refetchAt = NULL,
                            !.refetched = TRUE, !.marker = 0]
    /\ UNCHANGED <<db, lastID, uuidCtr, clock, serverTz, reqs, resp, kiteInstances, brokerCall, exchangeCall, given, log, view>>

\* SpecPopup: one authentication popup from window.open until its timers are
\* spent. Time and the timer callbacks go on as long as one is pending.
NextPopup ==
    \/ \E c \in Components, id \in ConnIds, opened \in BOOLEAN : OpenAuthWindow(c, id, opened)
    \/ \E by \in {"user", "page"} : WindowCloses(by)
    \/ AdvanceSecond
    \/ checkClosed
    \/ AuthTimeout
    \/ Refetch

SpecPopup == Init /\ [][NextPopup]_vars /\ WF_vars(NextPopup)

----
\* The lists GET /positions/:connectionId and GET /holdings/:connectionId
\* send, computed from what kiteService returned.
MaxEntries == 2

\* Entries as the broker reports them: short, flat and long quantities.
BrokerEntries ==
    {[tradingsymbol |-> sym, quantity |-> q] : sym \in {"INFY", "TCS"}, q \in {-2, 0, 3}}

BrokerEntryLists == UNION {[1..n -> BrokerEntries] : n \in 0..MaxEntries}

\* .map(pos => ({symbol: pos.tradingsymbol, ..., quantity: pos.quantity, ...}))
FormatEntry(e) == [symbol |-> e.tradingsymbol, quantity |-> e.quantity]

FormatEntries(list) == [k \in DOMAIN list |-> FormatEntry(list[k])]

\* positionsData.net.filter(pos => Math.abs(pos.quantity) > 0).map(...)
FormatPositions(net) ==
    FormatEntries(SelectSeq(net, LAMBDA pos : Abs(pos.quantity) > 0))

\* holdingsData.filter(holding => holding.quantity > 0).map(...)
FormatHoldings(holdingsData) ==
    FormatEntries(SelectSeq(holdingsData, LAMBDA holding : holding.quantity > 0))

\* kiteService.getPositions / getHoldings resolves with list for the handler
\* of op suspended at its await (the checks before the call are DataLookup's).
EntriesReturned(s, op, u, id, list) ==
    /\ FreeSlot(s)
    /\ reqs' = [reqs EXCEPT ![s] = [pc |-> "entries", op |-> op, user |-> u, id |-> id, list |-> list]]
    /\ UNCHANGED <<db, lastID, uuidCtr, clock, serverTz, resp, kiteInstances, brokerCall, exchangeCall, given>>
    /\ log' = NoLog
    /\ UNCHANGED <<view, auth>>

\* The handler resumes: the list is filtered and formatted and sent,
\* res.json({positions | holdings, ...}).
SendEntries(s) ==
    /\ reqs[s].pc = "entries"
    /\ resp' = Response(reqs[s].op, reqs[s].user, reqs[s].id,
                        Body(200, "ok", "",
                             IF reqs[s].op = "positions" THEN FormatPositions(reqs[s].list)
                             ELSE FormatHoldings(reqs[s].list)))
    /\ reqs' = [reqs EXCEPT ![s] = Idle]
    /\ UNCHANGED <<db, lastID, uuidCtr, clock, serverTz, kiteInstances, brokerCall, exchangeCall, given>>
    /\ log' = NoLog
    /\ UNCHANGED <<view, auth>>

NextEntries ==
    \/ \E op \in {"positions", "holdings"}, list \in BrokerEntryLists :
          EntriesReturned(1, op, "u1", 1, list)
    \/ SendEntries(1)

SpecEntries == Init /\ [][NextEntries]_vars

----
\* The Edit Settings form of BrokerConnection.tsx.

\* What the user may type into the form's key and secret fields.
EditForms == {[apiKey |-> k, apiSecret |-> sec] : k \in {"k1", "k2"}, sec \in {"s1", "s2"}}

\* brokerAPI.connect({...data, brokerName: editingConnection.broker_name}):
\* the body of the POST /connect the form sends; the id of the connection
\* being edited is not part of it.
EditBody(editingConnection, data) ==
    [brokerName |-> editingConnection.broker_name, apiKey |-> data.apiKey, apiSecret |-> data.apiSecret]

\* onEditSubmit for the listed connection id of user u, up to the point where
\* the server's POST /connect handler awaits its COUNT(*) query.
onEditSubmit(s, u, id, data, cap) ==
    /\ OwnedRow(db, u, id)
    /\ ConnectCheck(s, u, EditBody(db[id], data), cap)

\* SpecEdit: u1 has four connections and edits them: every POST /connect is
\* sent by the Edit Settings form. u1 also disconnects and deletes.
NextEdit ==
    \/ \E id \in LimitIds \cup {1}, data \in EditForms : onEditSubmit(1, "u1", id, data, LimitCap)
    \/ ConnectInsert(1)
    \/ \E id \in LimitIds : Disconnect("u1", id)
    \/ \E id \in LimitIds : Delete("u1", id)
    \/ ListConnections("u1")

SpecEdit == InitLimit /\ [][NextEdit]_vars

----
\* SpecOps: every endpoint that reads or writes a connection's tokens. u1
\* creates OAuth and direct connections; both users read, reconnect, refresh,
\* disconnect, test, sync and fetch; callbacks arrive for any connection.
NextOps ==
    \/ \E inp \in ConnectInputs : ConnectCheck(1, "u1", inp, MaxConns)
    \/ ConnectInsert(1)
    \/ \E id \in ConnIds : CallbackLookup(1, CallbackQuery("rt1", "success", id))
    \/ CallbackExchange(1)
    \/ CallbackStore(1)
    \/ CallbackFinish(1)
    \/ \E u \in Users : ListConnections(u)
    \/ \E u \in Users, id \in ConnIds : GetConnection(u, id)
    \/ \E u \in Users, id \in ConnIds : Reconnect(u, id)
    \/ \E u \in Users, id \in ConnIds, router \in {"first", "second"} : RefreshToken(u, id, router)
    \/ \E u \in Users, id \in ConnIds : Disconnect(u, id)
    \/ \E u \in Users, id \in ConnIds : TestConnection(1, u, id)
    \/ \E u \in Users, id \in ConnIds : GetPositions(1, u, id)
    \/ \E u \in Users, id \in ConnIds : GetHoldings(1, u, id)
    \/ KiteServiceCall(1)
    \/ \E u \in Users, id \in ConnIds : SyncPositions(1, u, id)
    \/ SyncPositionsCall(1)

SpecOps == Init /\ [][NextOps]_vars

----
\* Properties.

\* C1: in every reachable state each user has at most 5 connections with
\* is_active = 1, whatever requests ran and however they interleaved.
AtMostFiveActive == \A u \in Users : ActiveCount(db, u) <= MAX_CONNECTIONS

\* C2: of the POST /connect requests of u1 that run concurrently while u1 has
\* four active connections, at most one persists a row (the others are
\* refused): u1 never owns more than one row beyond the four.
AtMostOneRacingCreatePersists ==
    Cardinality({i \in DOMAIN db : db[i].user_id = "u1"}) <= StoredAtStart + 1

\* C3: a well-formed POST /connect that arrives while its user has 5 or more
\* active connections is answered LimitExceeded, inserts no row, changes no
\* row and leaves no continuation behind.
CreateAtLimitFails ==
    [][\A s \in Slots, inp \in LimitInputs :
          (/\ ConnectCheck(s, "u1", inp, LimitCap)
           /\ ~ConnectInputMissing(inp)
           /\ ActiveCount(db, "u1") >= MAX_CONNECTIONS)
          => (/\ resp'.op = "connect"
              /\ resp'.body.kind = "LimitExceeded"
              /\ resp'.body.status = 400
              /\ db' = db
              /\ lastID' = lastID
              /\ reqs' = reqs)]_vars

\* C3 witness: a create was refused with LimitExceeded while its user holds
\* five active connections.
CreateAtLimitWitness ==
    /\ resp.op = "connect"
    /\ resp.body.kind = "LimitExceeded"
    /\ ActiveCount(db, resp.user) = MAX_CONNECTIONS

\* C4: DELETE /connections/:id by a user who does not own the stored
\* connection answers NotFound and leaves the table as it was; the answer is
\* NotFound whenever no row was removed, and otherwise exactly the caller's
\* row is removed.
DeleteForeignIsNotFound ==
    [][\A u \in Users, id \in ConnIds :
          Delete(u, id) =>
            /\ (id \in DOMAIN db /\ db[id].user_id # u)
                 => (resp'.body.kind = "NotFound" /\ resp'.body.status = 404 /\ db' = db)
            /\ (db' = db) => resp'.body.kind = "NotFound"
            /\ (db' # db) => (/\ resp'.body.kind = "ok"
                              /\ OwnedRow(db, u, id)
                              /\ DOMAIN db' = DOMAIN db \ {id}
                              /\ \A i \in DOMAIN db' : db'[i] = db[i])]_vars

\* C4 witness: a delete naming another user's stored connection was answered
\* NotFound and the row is still there.
DeleteForeignWitness ==
    /\ resp.op = "delete"
    /\ resp.body.kind = "NotFound"
    /\ resp.id \in DOMAIN db
    /\ db[resp.id].user_id # resp.user

\* C5: POST /disconnect naming a stored connection the caller does not own is
\* answered NotFound.
DisconnectForeignIsNotFound ==
    [][\A u \in Users, id \in ConnIds :
          (Disconnect(u, id) /\ id \in DOMAIN db /\ db[id].user_id # u)
            => resp'.body.kind = "NotFound"]_vars

\* The columns C6 names.
SameCredentialState(r1, r2) ==
    /\ r1.api_key = r2.api_key
    /\ r1.api_secret = r2.api_secret
    /\ r1.access_token = r2.access_token
    /\ r1.public_token = r2.public_token
    /\ r1.access_token_expires_at = r2.access_token_expires_at
    /\ r1.broker_name = r2.broker_name
    /\ r1.webhook_url = r2.webhook_url

\* C6: POST /disconnect by the owner of an already inactive connection answers
\* success, leaves is_active 0 and leaves credentials, tokens, expiry,
\* broker_name and webhook_url of that row, and every other row, as they were.
DisconnectIdempotent ==
    [][\A u \in Users, id \in ConnIds :
          (Disconnect(u, id) /\ OwnedRow(db, u, id) /\ db[id].is_active = 0)
            => (/\ resp'.body.kind = "ok"
                /\ resp'.body.status = 200
                /\ DOMAIN db' = DOMAIN db
                /\ db'[id].is_active = 0
                /\ SameCredentialState(db[id], db'[id])
                /\ \A i \in DOMAIN db \ {id} : db'[i] = db[i])]_vars

\* C6 witness: the owner disconnected a connection that was already inactive
\* and holds a token.
DisconnectIdempotentWitness ==
    /\ resp.op = "disconnect"
    /\ resp.before = <<0>>
    /\ resp.body.kind = "ok"
    /\ OwnedRow(db, resp.user, resp.id)
    /\ db[resp.id].is_active = 0
    /\ Truthy(db[resp.id].access_token)

\* The answers of the owner-scoped operations to caller u naming id; o is the
\* outcome of the broker call, should the handler get that far.
OwnerScopedBodies(d, u, id, now, o) ==
    [get        |-> GetConnectionBody(d, u, id, now),
     delete     |-> DeleteBody(d, u, id),
     reconnect  |-> ReconnectBody(d, u, id),
     test       |-> TestConnectionBody(d, u, id, now, o),
     positions  |-> GetPositionsBody(d, u, id, now, o),
     holdings   |-> GetHoldingsBody(d, u, id, now, o),
     disconnect |-> DisconnectBody(d, u, id)]

\* C7: for every owner-scoped operation, the answer for an id stored for
\* another user is the answer for an id that is not stored, and it is NotFound.
ForeignIdAnswersNotFound ==
    \A u \in Users, i \in DOMAIN db, j \in ConnIds \ DOMAIN db, o \in BrokerCallOutcomes :
        db[i].user_id # u =>
            LET foreign == OwnerScopedBodies(db, u, i, clock, o)
                missing == OwnerScopedBodies(db, u, j, clock, o)
            IN \A op \in DOMAIN foreign :
                  foreign[op] = missing[op] /\ foreign[op].kind = "NotFound"

\* C8: in every view GET /connections and GET /connections/:id return,
\* is_authenticated is 1 if the row's access_token is neither NULL nor '',
\* and 0 otherwise.
ViewAuthenticatedIffToken ==
    [][\A u \in Users :
          ((ListConnections(u) \/ \E id \in ConnIds : GetConnection(u, id))
             /\ resp'.body.kind = "ok")
          => \A v \in resp'.body.data :
                /\ v.id \in DOMAIN db
                /\ v.is_authenticated \in {0, 1}
                /\ (v.is_authenticated = 1)
                     <=> (db[v.id].access_token # NULL /\ db[v.id].access_token # EmptyStr)]_vars

\* C8 witness: a list response holding an authenticated and an unauthenticated
\* connection.
ViewAuthenticatedWitness ==
    /\ resp.op = "list"
    /\ \E v, w \in resp.body.data :
          /\ v.is_authenticated = 1 /\ db[v.id].access_token # NULL
          /\ w.is_authenticated = 0 /\ db[w.id].access_token = NULL

\* C9: right after a successful POST /connect the new connection's
\* is_authenticated is 0 for the OAuth variant and 1 for a direct variant.
NewConnectionAuthMatchesVariant ==
    [][\A s \in Slots :
          (ConnectInsert(s) /\ resp'.body.kind = "ok")
          => LET row == db'[resp'.id]
             IN IsAuthenticatedCol(row) = (IF AuthRequired(row.broker_name) THEN 0 ELSE 1)]_vars

\* C10: in every view returned, token_expired is true exactly when
\* access_token_expires_at is set and earlier than the clock at the read; it
\* is not true when the expiry is unset or equals the clock.
TokenExpiredIffPast ==
    [][((ListConnections("u1") \/ \E id \in ConnIds : GetConnection("u1", id))
          /\ resp'.body.kind = "ok")
       => \A v \in resp'.body.data :
             (v.token_expired = "true")
               <=> (/\ db[v.id].access_token_expires_at # NULL
                    /\ db[v.id].access_token_expires_at[1] < clock)]_vars

\* C10 witness: a list response, read after one connection's expiry passed,
\* that reports it expired and reports a connection without expiry not expired.
TokenExpiredWitness ==
    /\ resp.op = "list"
    /\ \E v, w \in resp.body.data :
          /\ v.token_expired = "true"
          /\ v.access_token_expires_at # NULL /\ v.access_token_expires_at[1] < clock
          /\ w.token_expired # "true" /\ w.access_token_expires_at = NULL

\* Half an hour, in seconds.
HalfHour == 30 * 60

\* C11: in every view returned, needs_token_refresh is true exactly when
\* access_token_expires_at is set and less than 3600 seconds after the clock at
\* the read; a connection whose token expires 30 minutes after the read is
\* reported with needs_token_refresh true and token_expired false.
NeedsRefreshIffWithinHour ==
    [][((ListConnections("u1") \/ \E id \in ConnIds : GetConnection("u1", id))
          /\ resp'.body.kind = "ok")
       => \A v \in resp'.body.data :
             LET exp == db[v.id].access_token_expires_at
             IN /\ (v.needs_token_refresh = "true")
                     <=> (exp # NULL /\ exp[1] - clock < REFRESH_WINDOW)
                /\ (exp # NULL /\ exp[1] - clock = HalfHour)
                     => (v.needs_token_refresh = "true" /\ v.token_expired = "false")]_vars

\* C11 witness: a list response read 30 minutes before a connection's expiry
\* reports needs_token_refresh true and token_expired false for it.
NeedsRefreshHalfHourWitness ==
    /\ resp.op = "list"
    /\ \E v \in resp.body.data :
          /\ v.access_token_expires_at # NULL
          /\ v.access_token_expires_at[1] - clock = HalfHour
          /\ v.needs_token_refresh = "true"
          /\ v.token_expired = "false"

\* C12: in every view returned, needs_token_refresh is true exactly when the
\* time left until access_token_expires_at is at least 0 and less than 3600
\* seconds; it is false when 3600 seconds or more are left and when the token
\* has already expired.
NeedsRefreshOnlyInsideWindow ==
    [][((ListConnections("u1") \/ \E id \in ConnIds : GetConnection("u1", id))
          /\ resp'.body.kind = "ok")
       => \A v \in resp'.body.data :
             LET exp == db[v.id].access_token_expires_at
             IN (v.needs_token_refresh = "true")
                  <=> (exp # NULL /\ 0 <= exp[1] - clock /\ exp[1] - clock < REFRESH_WINDOW)]_vars

\* C13: the expiry the callback stores at instant t is 06:00 of the day after
\* t's day in the broker's time zone (IST), whatever the server's time zone;
\* it is later than t, and token_expired computed at t is not true.
ExpiryIsBrokerLocalCutover ==
    [][\A s \in Slots :
          (CallbackStore(s) /\ reqs[s].q.connection_id \in DOMAIN db)
          => LET row == db'[reqs[s].q.connection_id]
             IN /\ row.access_token_expires_at = <<ExpiresAt(clock, IST)>>
                /\ row.access_token_expires_at[1] > clock
                /\ TokenExpiredField(row, clock) # "true"]_vars

\* C14: the UPDATE of a callback that passed the exchange stores, on the row
\* the callback names, the encrypted access token, the encrypted public token
\* and the expiry, and sets is_active to 1, so that is_authenticated is 1; the
\* row's other columns and every other row stay as they were.
CallbackStoresOnNamedRow ==
    [][\A s \in Slots :
          CallbackStore(s)
          => LET id == reqs[s].q.connection_id
             IN /\ DOMAIN db' = DOMAIN db
                /\ \A i \in DOMAIN db \ {id} : db'[i] = db[i]
                /\ id \in DOMAIN db
                     => /\ db'[id].access_token = encryptData(reqs[s].accessToken)
                        /\ db'[id].access_token # reqs[s].accessToken
                        /\ db'[id].public_token = encryptData(reqs[s].publicToken)
                        /\ db'[id].access_token_expires_at = <<reqs[s].expiresAt>>
                        /\ db'[id].is_active = 1
                        /\ IsAuthenticatedCol(db'[id]) = 1
                        /\ db'[id].user_id = db[id].user_id
                        /\ db'[id].broker_name = db[id].broker_name
                        /\ db'[id].api_key = db[id].api_key
                        /\ db'[id].api_secret = db[id].api_secret
                        /\ db'[id].webhook_url = db[id].webhook_url]_vars

\* C14 witness: the UPDATE of a callback has run on a connection its owner
\* had disconnected meanwhile; the row is active and authenticated, and the
\* other stored connection still has no token.
CallbackStoredWitness ==
    \E s \in Slots :
        /\ reqs[s].pc = "finish"
        /\ resp.op = "disconnect"
        /\ resp.id = reqs[s].q.connection_id
        /\ resp.before = <<1>>
        /\ resp.id \in DOMAIN db
        /\ db[resp.id].is_active = 1
        /\ IsAuthenticatedCol(db[resp.id]) = 1
        /\ \E j \in DOMAIN db \ {resp.id} : db[j].access_token = NULL

\* C15: a callback whose status is not success, whose request_token is
\* missing, whose connection_id is missing, or whose connection_id names no
\* stored row is answered with a failure page; it never reaches the token
\* exchange (no continuation is left) and changes no row.
CallbackRefusedBeforeExchange ==
    [][\A q \in CallbackInputs :
          (/\ CallbackLookup(1, q)
           /\ \/ q.status # "success"
              \/ q.request_token = ""
              \/ q.connection_id = 0
              \/ q.connection_id \notin DOMAIN db)
          => (/\ resp'.op = "callback"
              /\ resp'.body.status \in {400, 404}
              /\ resp'.body.kind \in {"AuthenticationFailed", "MissingConnectionId", "NotFound"}
              /\ reqs' = reqs
              /\ db' = db)]_vars

\* C15 witness: a callback with a failure status naming a stored connection
\* was answered with the failure page, and the connection has no token.
CallbackRefusedWitness ==
    /\ resp.op = "callback"
    /\ resp.body.kind = "AuthenticationFailed"
    /\ resp.id \in DOMAIN db
    /\ db[resp.id].access_token = NULL
    /\ \A s \in Slots : reqs[s] = Idle

\* C16: the step of the callback that receives the answer of the token
\* exchange writes nothing; when the exchange threw or returned no access
\* token the callback ends there with the 500 failure page, and it goes on to
\* the UPDATE only with an access token in hand.
ExchangeFailureLeavesRecord ==
    [][\A s \in Slots :
          CallbackExchange(s)
          => /\ db' = db
             /\ IF reqs'[s].pc = "store"
                THEN Truthy(reqs'[s].accessToken)
                ELSE /\ reqs'[s] = Idle
                     /\ resp'.op = "callback"
                     /\ resp'.body.status = 500
                     /\ resp'.body.kind = "AuthenticationError"]_vars

\* C16 witness: a callback ended with the failure page of the exchange on a
\* connection that holds a token from an earlier callback.
ExchangeFailureWitness ==
    /\ resp.op = "callback"
    /\ resp.body.kind = "AuthenticationError"
    /\ resp.id \in DOMAIN db
    /\ Truthy(db[resp.id].access_token)
    /\ db[resp.id].access_token_expires_at # NULL
    /\ \A s \in Slots : reqs[s] = Idle

\* The token stored for connection id in table d, as kiteService would read it.
StoredToken(d, id) == decryptData(d[id].access_token)

\* C17: when a callback that stored a new access token ends, whichever router's
\* handler ran it, no cached client handle of that connection carries a token
\* other than the stored one.
CallbackLeavesNoStaleHandle ==
    [][\A s \in Slots :
          CallbackFinish(s)
          => LET id == reqs[s].q.connection_id
             IN (id \in DOMAIN kiteInstances' /\ id \in DOMAIN db')
                  => kiteInstances'[id] = StoredToken(db', id)]_vars

\* C18: data calls and callbacks on one connection do not interleave: every
\* call kiteService issues to the broker carries the token stored at that
\* moment, and when a callback ends no cached handle of the connection
\* carries a token other than the stored one.
DataCallsSerializedWithRotation ==
    [][\A s \in Slots :
          /\ (KiteServiceCall(s) /\ brokerCall'.id \in DOMAIN db /\ brokerCall'.id = reqs[s].id
                 /\ Truthy(db[reqs[s].id].access_token))
               => brokerCall'.token = StoredToken(db, reqs[s].id)
          /\ CallbackFinish(s)
               => LET id == reqs[s].q.connection_id
                  IN (id \in DOMAIN kiteInstances' /\ id \in DOMAIN db')
                       => kiteInstances'[id] = StoredToken(db', id)]_vars

\* C19: POST /reconnect by the owner of a connection to a direct (non-OAuth)
\* broker is answered UnsupportedOperation with no login URL, and no row
\* changes.
ReconnectDirectUnsupported ==
    [][\A u \in Users, id \in ConnIds :
          (Reconnect(u, id) /\ OwnedRow(db, u, id) /\ ~AuthRequired(db[id].broker_name))
          => (/\ resp'.body.kind = "UnsupportedOperation"
              /\ resp'.body.status = 400
              /\ resp'.body.data = NULL
              /\ db' = db)]_vars

\* C19 witness: the owner's reconnect of an upstox connection was answered
\* UnsupportedOperation.
ReconnectDirectWitness ==
    /\ resp.op = "reconnect"
    /\ resp.body.kind = "UnsupportedOperation"
    /\ OwnedRow(db, resp.user, resp.id)
    /\ db[resp.id].broker_name = "upstox"

\* C20: POST /reconnect is answered NotFound when the id is not stored or is
\* stored for another user, whatever that row's credentials; for the caller's
\* own row it is answered MissingCredentials exactly when the stored api_key or
\* api_secret is NULL or ''; no row changes.
ReconnectNotFoundBeforeCredentials ==
    [][\A u \in Users, id \in ConnIds :
          Reconnect(u, id)
          => /\ db' = db
             /\ ~OwnedRow(db, u, id)
                  => (resp'.body.kind = "NotFound" /\ resp'.body.status = 404)
             /\ OwnedRow(db, u, id)
                  => ((resp'.body.kind = "MissingCredentials" /\ resp'.body.status = 400)
                        <=> (~Truthy(db[id].api_key) \/ ~Truthy(db[id].api_secret)))
             /\ OwnedRow(db, u, id) => resp'.body.kind # "NotFound"]_vars

\* C20 witness: a reconnect naming another user's connection whose stored
\* api_key is empty was answered NotFound.
ReconnectPrecedenceWitness ==
    /\ resp.op = "reconnect"
    /\ resp.body.kind = "NotFound"
    /\ resp.id \in DOMAIN db
    /\ db[resp.id].user_id # resp.user
    /\ ~Truthy(db[resp.id].api_key)

\* C21: POST /reconnect by the owner of an OAuth connection with stored
\* credentials answers with a login URL whose callback URL names that
\* connection and carries the reconnect flag; the row keeps its access token,
\* public token, expiry and is_active, and no row changes.
ReconnectIssuesLoginUrl ==
    [][\A u \in Users, id \in ConnIds :
          (/\ Reconnect(u, id)
           /\ OwnedRow(db, u, id)
           /\ AuthRequired(db[id].broker_name)
           /\ Truthy(db[id].api_key) /\ Truthy(db[id].api_secret))
          => (/\ resp'.body.kind = "ok"
              /\ resp'.body.status = 200
              /\ resp'.body.data.loginUrl[3][2] = id
              /\ resp'.body.data.loginUrl[3][3] = "reconnect"
              /\ db' = db)]_vars

\* C21 witness: the owner's reconnect of an authenticated OAuth connection was
\* answered with a login URL, and the row still holds its token and expiry.
ReconnectKeepsTokenWitness ==
    /\ resp.op = "reconnect"
    /\ resp.body.kind = "ok"
    /\ OwnedRow(db, resp.user, resp.id)
    /\ Truthy(db[resp.id].access_token)
    /\ db[resp.id].access_token_expires_at # NULL

\* C22: no step changes the webhook_url of a row that stays stored; every
\* stored webhook_url embeds the row's user_id and a webhook id, and no two
\* rows share one.
WebhookUrlStableAndUnique ==
    [][/\ \A i \in DOMAIN db \cap DOMAIN db' : db'[i].webhook_url = db[i].webhook_url
       /\ \A i \in DOMAIN db' :
             /\ db'[i].webhook_url[2] = db'[i].user_id
             /\ \E n \in 1..uuidCtr' : db'[i].webhook_url[3] = uuidv4(n)
             /\ \A j \in DOMAIN db' \ {i} : db'[j].webhook_url # db'[i].webhook_url]_vars

\* C22 witness: two connections are stored, one disconnected and one
\* authenticated by a callback, and the owner's reconnect was just answered.
WebhookUrlWitness ==
    /\ resp.op = "reconnect"
    /\ resp.body.kind = "ok"
    /\ \E i, j \in DOMAIN db :
          /\ i # j
          /\ db[i].is_active = 0
          /\ Truthy(db[j].access_token)
          /\ db[i].webhook_url # db[j].webhook_url

\* C23: no step changes the broker_name of a row that stays stored, and the
\* row POST /connect inserts holds the lower-cased name of the request.
BrokerNameImmutable ==
    [][/\ \A i \in DOMAIN db \cap DOMAIN db' : db'[i].broker_name = db[i].broker_name
       /\ \A s \in Slots :
             (ConnectInsert(s) /\ resp'.body.kind = "ok")
             => db'[resp'.id].broker_name = toLowerCase(reqs[s].inp.brokerName)]_vars

\* C23 witness: a callback has stored a token on a connection to a direct
\* broker, which is still named upstox.
BrokerNameWitness ==
    \E i \in DOMAIN db :
        /\ db[i].broker_name = "upstox"
        /\ Truthy(db[i].access_token)
        /\ resp.op = "callback"
        /\ resp.id = i
        /\ resp.body.kind = "ok"

\* C24: the broker_name of every stored row is one of the registry's ids
\* zerodha, upstox, 5paisa.
StoredBrokerSupported == \A i \in DOMAIN db : db[i].broker_name \in SupportedBrokers

\* A value the vault produced: not NULL, and the tagged form encryptData gives.
IsCiphertext(c) == c # NULL /\ Len(c) = 2 /\ c[1] = "enc"

\* C25: when the vault's self-test in POST /connect gives back something other
\* than 'test' or throws, the request is answered 500 and no row is written;
\* every stored api_key and api_secret is a ciphertext, and every stored
\* access_token and public_token is NULL or a ciphertext.
VaultFailureStoresNothing ==
    [][/\ \A s \in Slots, t \in SelfTestOutcomes :
             (ConnectInsertWith(s, t) /\ t # "pass")
             => (/\ resp'.op = "connect"
                 /\ resp'.body.status = 500
                 /\ resp'.body.kind = "EncryptionFailure"
                 /\ db' = db
                 /\ lastID' = lastID)
       /\ \A i \in DOMAIN db' :
             /\ IsCiphertext(db'[i].api_key)
             /\ IsCiphertext(db'[i].api_secret)
             /\ db'[i].access_token = NULL \/ IsCiphertext(db'[i].access_token)
             /\ db'[i].public_token = NULL \/ IsCiphertext(db'[i].public_token)]_vars

\* C25 witness: a create was answered with the encryption failure while an
\* earlier connection, authenticated by a callback, is the only row stored.
VaultFailureWitness ==
    /\ resp.op = "connect"
    /\ resp.body.kind = "EncryptionFailure"
    /\ Cardinality(DOMAIN db) = 1
    /\ \A i \in DOMAIN db : IsCiphertext(db[i].access_token)

\* C26: the API key in the login URL a reconnect issues for a connection is
\* the API key POST /connect received for it, and the key and secret the
\* callback passes to the token exchange are the key and secret received.
CredentialsRoundTrip ==
    [][/\ \A u \in Users, id \in ConnIds :
             (Reconnect(u, id) /\ resp'.body.kind = "ok")
             => resp'.body.data.loginUrl[2] = given[id].apiKey
       /\ \A s \in Slots :
             CallbackExchange(s)
             => LET id == reqs[s].q.connection_id
                IN /\ exchangeCall'.apiKey = given[id].apiKey
                   /\ exchangeCall'.apiSecret = given[id].apiSecret
                   /\ exchangeCall'.request_token = reqs[s].q.request_token]_vars

\* C26 witness: two connections created with different keys and secrets; the
\* exchange was called with one connection's key and secret and a reconnect
\* issued the login URL with the other's key.
CredentialsRoundTripWitness ==
    /\ resp.op = "reconnect"
    /\ resp.body.kind = "ok"
    /\ resp.body.data.loginUrl[2] = "k1"
    /\ given[resp.id].apiKey = "k1"
    /\ exchangeCall.apiKey = "k2"
    /\ exchangeCall.apiSecret = "s2"

\* C27: nothing written to the console holds a plaintext credential: a logged
\* login URL embeds no API key a connection was created with, and logged
\* stored values are ciphertexts.
NoPlaintextInLog ==
    /\ \A url \in log.loginUrls : url[2] \notin {given[i].apiKey : i \in DOMAIN given}
    /\ \A c \in log.ciphertexts : IsCiphertext(c)
    /\ \A row \in log.rows : IsCiphertext(row.api_key) /\ IsCiphertext(row.api_secret)

DeletedIds == (1..lastID) \ DOMAIN db

\* C30: once a connection is deleted no step makes a row with its id exist
\* again, and no request naming its id is answered with success.
DeletedIsTerminal ==
    [][\A id \in DeletedIds :
          /\ id \notin DOMAIN db'
          /\ (resp' # resp /\ resp'.id = id) => resp'.body.status # 200]_vars

\* C30, the late callback alone: no OAuth callback naming a deleted
\* connection ends with the success page.
DeletedRefusesLateCallback ==
    [][\A id \in DeletedIds :
          (resp' # resp /\ resp'.id = id /\ resp'.op = "callback")
          => resp'.body.status # 200]_vars

\* C30, first half: the owner's delete of a stored connection removes the
\* row and answers 200, whatever state the connection is in.
OwnerDeleteSucceeds ==
    [][\A u \in Users, id \in ConnIds :
          (Delete(u, id) /\ OwnedRow(db, u, id))
          => id \notin DOMAIN db' /\ resp'.body.status = 200]_vars

\* The request token of query q was already exchanged for connection q names:
\* the access token stored on that row is the one the broker issued for it.
Consumed(d, q) ==
    /\ q.connection_id \in DOMAIN d
    /\ Truthy(d[q.connection_id].access_token)
    /\ StoredToken(d, q.connection_id) = <<"at", q.request_token>>

\* C31: a callback carrying a request token that was already exchanged for
\* its connection never submits it to the broker's token exchange again.
RequestTokenExchangedOnce ==
    [][\A s \in Slots :
          ~(CallbackExchange(s) /\ Consumed(db, reqs[s].q))]_vars

\* C32: whenever the authentication popup has ended, the opener eventually
\* has re-fetched the connection state and holds no in-progress marker.
PopupEndLeadsToRefetch ==
    (auth.window = "closed") ~> (auth.refetched /\ auth.marker = 0)

\* C32, the bound: no popup stays open beyond the 300 seconds.
PopupClosedWithinBound == auth.window = "open" => auth.t <= POPUP_TIMEOUT

\* The token fields of a row.
TokenFields(row) == <<row.access_token, row.public_token, row.access_token_expires_at>>

\* C33: the access token, public token and expiry of a stored connection
\* change only in the UPDATE of a callback for that connection, which runs
\* after a successful exchange; no other step of any endpoint changes them.
TokensChangeOnlyInCallback ==
    [][\A id \in DOMAIN db \cap DOMAIN db' :
          TokenFields(db[id]) # TokenFields(db'[id])
          => \E s \in Slots : CallbackStore(s) /\ reqs[s].q.connection_id = id]_vars

\* C33 witness: the owner disconnected an authenticated connection and the
\* row still holds its tokens.
TokensKeptWitness ==
    /\ resp.op = "disconnect"
    /\ OwnedRow(db, resp.user, resp.id)
    /\ db[resp.id].is_active = 0
    /\ Truthy(db[resp.id].access_token)
    /\ db[resp.id].access_token_expires_at # NULL

\* C34: for an active connection of a direct broker, reconnect and both
\* refresh-token handlers answer with the unsupported error and never with a
\* login URL.
HandshakeRefusedForDirect ==
    [][\A u \in Users, id \in ConnIds :
          ( /\ OwnedActiveRow(db, u, id)
            /\ ~AuthRequired(toLowerCase(db[id].broker_name))
            /\ \/ Reconnect(u, id)
               \/ \E router \in {"first", "second"} : RefreshToken(u, id, router) )
          => resp'.body.kind = "UnsupportedOperation"]_vars

\* C37: a handler goes on to kiteService only for a connection that the
\* caller owns, that is active, that holds an access token, and whose expiry
\* is unset or not before the clock.
AdapterCalledOnlyWhenUsable ==
    [][\A s \in Slots :
          (reqs[s].pc \notin {"broker", "sync"} /\ reqs'[s].pc \in {"broker", "sync"})
          => LET id == reqs'[s].id
             IN /\ OwnedActiveRow(db, reqs'[s].user, id)
                /\ Truthy(db[id].access_token)
                /\ \/ db[id].access_token_expires_at = NULL
                   \/ db[id].access_token_expires_at[1] >= clock]_vars

\* C37 without the sync endpoint: test, positions and holdings go on to
\* kiteService only for a usable connection.
DataCalledOnlyWhenUsable ==
    [][\A s \in Slots :
          (reqs[s].pc # "broker" /\ reqs'[s].pc = "broker")
          => LET id == reqs'[s].id
             IN /\ OwnedActiveRow(db, reqs'[s].user, id)
                /\ Truthy(db[id].access_token)
                /\ \/ db[id].access_token_expires_at = NULL
                   \/ db[id].access_token_expires_at[1] >= clock]_vars

\* The entries of a broker list whose quantity is not zero, formatted.
NonZeroEntries(list) == FormatEntries(SelectSeq(list, LAMBDA e : e.quantity # 0))

\* C35: the positions and the holdings endpoint send exactly the broker's
\* entries whose quantity is not zero, positive or negative.
EntriesKeptIffNonZero ==
    [][\A s \in Slots :
          SendEntries(s) => resp'.body.data = NonZeroEntries(reqs[s].list)]_vars

\* C35 for positions alone.
PositionsKeptIffNonZero ==
    [][\A s \in Slots :
          (SendEntries(s) /\ reqs[s].op = "positions")
          => resp'.body.data = NonZeroEntries(reqs[s].list)]_vars

\* C35 for the dashboard's merged list: the positions shown are exactly the
\* collected ones whose quantity is not zero.
MergedKeptIffNonZero ==
    [][(view.pc = "loop" /\ view'.pc = "idle")
         => view'.positions = SelectSeq(view'.allPositions, LAMBDA p : p.quantity # 0)]_vars

\* C36: a callback whose UPDATE finds no row (the connection was deleted
\* after the lookup) does not go on to render the success page.
CallbackSuccessOnlyIfStored ==
    [][\A s \in Slots :
          (CallbackStore(s) /\ reqs[s].q.connection_id \notin DOMAIN db)
          => reqs'[s].pc # "finish"]_vars

\* C38: when loading ends after the mount, a positions request has been made
\* for every connection the component kept from the list.
MountFetchesPositions ==
    [][(view.loading /\ ~view'.loading)
         => \A conn \in RangeOf(view'.brokerConnections) : conn.id \in DOMAIN view'.fetched]_vars

\* C40: at most one interval timer is active, one is active only while
\* isLiveUpdating is true and the component is mounted, and the timer the
\* ref holds is the active one.
OneLiveTimer ==
    /\ Cardinality(view.timers) <= 1
    /\ view.timers # {} => view.isLiveUpdating /\ view.isComponentMounted
    /\ view.timers = IF view.intervalRef = NULL THEN {} ELSE {view.intervalRef[1]}

\* C40 witness: the component was unmounted while live updates were on,
\* after the timer had been set more than once.
OneLiveTimerWitness ==
    /\ ~view.isComponentMounted
    /\ view.isLiveUpdating
    /\ view.nextTimer > 2
    /\ view.timers = {}

\* C39: a submitted Edit Settings form leaves the user's records as they
\* are in number and identity: when its POST /connect completes, the table
\* holds the same ids, each with the webhook URL it had.
EditUpdatesInPlace ==
    [][\A s \in Slots :
          ConnectInsert(s)
          => /\ DOMAIN db' = DOMAIN db
             /\ \A id \in DOMAIN db : db'[id].webhook_url = db[id].webhook_url]_vars
====
